---- MODULE Spec2Model ----
(***************************************************************************)
(* Model of the change-analysis and review-fusion core of pr-desc-cli:     *)
(* ReviewAnalysisEngine (analysis-engine.ts), the pattern registry         *)
(* (utils.ts) and generatePRReview / parseReviewResponse /                 *)
(* mergeAnalysisResults (pr-reviewer.ts).                                  *)
(*                                                                         *)
(* JavaScript strings are TLA+ strings; Len, SubSeq and \o act on them     *)
(* character by character.  A patch is the sequence of its lines, i.e. the *)
(* value of patch.split("\n").  Regular expressions are sequences of atoms *)
(* interpreted by a backtracking matcher (Matches).                        *)
(***************************************************************************)
EXTENDS Integers, Sequences, FiniteSets, TLC

(***************************************************************************)
(* String primitives                                                       *)
(***************************************************************************)
CharAt(s, i) == SubSeq(s, i, i)

\* String.prototype.substring(0, n)
Substring0(s, n) == SubSeq(s, 1, IF Len(s) < n THEN Len(s) ELSE n)

\* String.prototype.substring(1)
Substring1(s) == SubSeq(s, 2, Len(s))

\* String.prototype.includes
Includes(s, p) ==
    \E i \in 1..(Len(s) - Len(p) + 1) : SubSeq(s, i, i + Len(p) - 1) = p

\* String.prototype.startsWith
StartsWith(s, p) == Len(s) >= Len(p) /\ SubSeq(s, 1, Len(p)) = p

LowerLetters == "abcdefghijklmnopqrstuvwxyz"
UpperLetters == "ABCDEFGHIJKLMNOPQRSTUVWXYZ"
Digits == "0123456789"

CharsOf(s) == {CharAt(s, i) : i \in 1..Len(s)}

\* \w
WordChars == CharsOf(LowerLetters) \cup CharsOf(UpperLetters) \cup CharsOf(Digits) \cup {"_"}

\* \s  (the white space that occurs in the modelled texts)
SpaceChars == {" ", "\t", "\n"}

\* the two cases of a letter (flag i); other characters stand for themselves
CaseVariants(c) ==
    {c} \cup {CharAt(UpperLetters, j) : j \in {k \in 1..Len(LowerLetters) : CharAt(LowerLetters, k) = c}}
        \cup {CharAt(LowerLetters, j) : j \in {k \in 1..Len(UpperLetters) : CharAt(UpperLetters, k) = c}}

\* String.prototype.toLowerCase
RECURSIVE ToLowerCase(_)
ToLowerCase(s) ==
    IF s = "" THEN ""
    ELSE LET c == CharAt(s, 1)
             up == {k \in 1..Len(UpperLetters) : CharAt(UpperLetters, k) = c}
         IN (IF up = {} THEN c ELSE CharAt(LowerLetters, CHOOSE k \in up : TRUE))
            \o ToLowerCase(Substring1(s))

\* String.prototype.trim
RECURSIVE TrimStart(_)
TrimStart(s) ==
    IF s # "" /\ CharAt(s, 1) \in SpaceChars THEN TrimStart(Substring1(s)) ELSE s

RECURSIVE TrimEnd(_)
TrimEnd(s) ==
    IF s # "" /\ CharAt(s, Len(s)) \in SpaceChars THEN TrimEnd(SubSeq(s, 1, Len(s) - 1)) ELSE s

Trim(s) == TrimEnd(TrimStart(s))

\* Array.prototype.join("\n")
RECURSIVE JoinLines(_)
JoinLines(lines) ==
    IF lines = <<>> THEN ""
    ELSE IF Len(lines) = 1 THEN lines[1]
    ELSE LET half == Len(lines) \div 2
         IN JoinLines(SubSeq(lines, 1, half)) \o "\n" \o JoinLines(SubSeq(lines, half + 1, Len(lines)))

\* the last element of path.split(".")  (String.prototype.split + Array.prototype.pop)
RECURSIVE LastDotSegment(_)
LastDotSegment(path) ==
    IF Includes(path, ".")
    THEN LastDotSegment(SubSeq(path, (CHOOSE i \in 1..Len(path) : CharAt(path, i) = "."
                                        /\ \A j \in 1..(i - 1) : CharAt(path, j) # ".") + 1, Len(path)))
    ELSE path

(***************************************************************************)
(* Regular expressions: a regex is a set of alternatives, an alternative   *)
(* a sequence of atoms.  An atom is a character class with a quantifier    *)
(* ([cs, neg, min, many]: at least min characters, at most 1 unless many)  *)
(* or one of the assertions \b and $.                                      *)
(***************************************************************************)
Cls(cs, neg, min, many) == [k |-> "cls", cs |-> cs, neg |-> neg, min |-> min, many |-> many]

One(cs)      == Cls(cs, FALSE, 1, FALSE)
Opt(cs)      == Cls(cs, FALSE, 0, FALSE)
Star(cs)     == Cls(cs, FALSE, 0, TRUE)
Plus(cs)     == Cls(cs, FALSE, 1, TRUE)
NotStar(cs)  == Cls(cs, TRUE, 0, TRUE)
AtLeast(cs, n) == Cls(cs, FALSE, n, TRUE)
NotAtLeast(cs, n) == Cls(cs, TRUE, n, TRUE)

WordBoundary == [k |-> "wb"]
EndAnchor(multiline) == [k |-> "end", multiline |-> multiline]

\* a literal string, case-sensitive
Lit(str) == [i \in 1..Len(str) |-> One({CharAt(str, i)})]

\* a literal string under flag i
LitI(str) == [i \in 1..Len(str) |-> One(CaseVariants(CharAt(str, i)))]

InClass(c, a) == IF a.neg THEN c \notin a.cs ELSE c \in a.cs

\* number of consecutive characters of s from position i on that are in the class of a
RECURSIVE RunLength(_, _, _)
RunLength(s, i, a) ==
    IF i > Len(s) \/ ~InClass(CharAt(s, i), a) THEN 0
    ELSE IF ~a.many THEN 1
    ELSE 1 + RunLength(s, i + 1, a)

IsWordAt(s, i) == i >= 1 /\ i <= Len(s) /\ CharAt(s, i) \in WordChars

\* atoms k.. of the alternative re match s from position i on
RECURSIVE MatchFrom(_, _, _, _)
MatchFrom(re, k, s, i) ==
    IF k > Len(re) THEN TRUE
    ELSE LET a == re[k] IN
         CASE a.k = "wb"  -> IsWordAt(s, i - 1) # IsWordAt(s, i) /\ MatchFrom(re, k + 1, s, i)
           [] a.k = "end" -> /\ \/ i = Len(s) + 1
                                \/ a.multiline /\ i <= Len(s) /\ CharAt(s, i) = "\n"
                             /\ MatchFrom(re, k + 1, s, i)
           [] OTHER       -> \E n \in a.min..RunLength(s, i, a) : MatchFrom(re, k + 1, s, i + n)

\* the positions of s at which a match of regex begins
MatchStarts(regex, s) ==
    {i \in 1..(Len(s) + 1) : \E re \in regex : MatchFrom(re, 1, s, i)}

\* s.match(regex) is not null, for a regex (literal) that holds no position
Matches(regex, s) == MatchStarts(regex, s) # {}

(***************************************************************************)
(* The pattern registry (reviewPatters / initializePatterns).  Each rule   *)
(* keeps the regex's source text (RegExp.prototype.source, the key of the  *)
(* side table) next to its atoms.                                          *)
(***************************************************************************)
Quote == {"'", "\""}
AnyChar == {}          \* used negated: [\s\S]
NewLine == {"\n"}      \* used negated: .

\* a RegExp object of the registry: its source, its atoms, and its lastIndex
\* property (0 after construction)
Rule(source, regex) == [source |-> source, regex |-> regex, lastIndex |-> 0]

\* variant of StringMatch: RegExp.prototype.test, which searches from
\* lastIndex on and leaves lastIndex behind the first character of its match
StringMatch_Test(rule, code) ==
    LET starts == {i \in MatchStarts(rule.regex, code) : i > rule.lastIndex}
    IN IF starts = {} THEN [found |-> FALSE, lastIndex |-> 0]
       ELSE [found |-> TRUE, lastIndex |-> CHOOSE i \in starts : \A j \in starts : i <= j]

\* code.match(rule) for a rule with flag g: lastIndex is set to 0 before the
\* search, every match is collected, and lastIndex is 0 when the search ends;
\* found: the result is not null
StringMatch(rule, code) ==
    [found |-> Matches(rule.regex, code), lastIndex |-> 0]

securityPatterns == <<
    Rule("eval\\s*\\(", {LitI("eval") \o <<Star(SpaceChars)>> \o Lit("(")}),
    Rule("innerHTML\\s*=", {LitI("innerHTML") \o <<Star(SpaceChars)>> \o Lit("=")}),
    Rule("document\\.write\\s*\\(", {LitI("document.write") \o <<Star(SpaceChars)>> \o Lit("(")}),
    Rule("\\$\\{[^}]*\\}", {Lit("${") \o <<NotStar({"}"})>> \o Lit("}")}),
    Rule("SELECT\\s+.*\\s+FROM\\s+.*\\s+WHERE\\s+.*\\+",
         {LitI("SELECT") \o <<Plus(SpaceChars), NotStar(NewLine), Plus(SpaceChars)>>
          \o LitI("FROM") \o <<Plus(SpaceChars), NotStar(NewLine), Plus(SpaceChars)>>
          \o LitI("WHERE") \o <<Plus(SpaceChars), NotStar(NewLine)>> \o Lit("+")}),
    Rule("password\\s*=\\s*['\"]",
         {LitI("password") \o <<Star(SpaceChars)>> \o Lit("=") \o <<Star(SpaceChars), One(Quote)>>}),
    Rule("api[_-]?key\\s*=\\s*['\"]",
         {LitI("api") \o <<Opt({"_", "-"})>> \o LitI("key") \o <<Star(SpaceChars)>> \o Lit("=")
          \o <<Star(SpaceChars), One(Quote)>>}),
    Rule("secret\\s*=\\s*['\"]",
         {LitI("secret") \o <<Star(SpaceChars)>> \o Lit("=") \o <<Star(SpaceChars), One(Quote)>>}),
    Rule("token\\s*=\\s*['\"]",
         {LitI("token") \o <<Star(SpaceChars)>> \o Lit("=") \o <<Star(SpaceChars), One(Quote)>>}),
    Rule("crypto\\.createHash\\s*\\(\\s*['\"]md5['\"]",
         {LitI("crypto.createHash") \o <<Star(SpaceChars)>> \o Lit("(") \o <<Star(SpaceChars), One(Quote)>>
          \o LitI("md5") \o <<One(Quote)>>}),
    Rule("Math\\.random\\s*$$\\s*$$",
         {LitI("Math.random") \o <<Star(SpaceChars), EndAnchor(FALSE), EndAnchor(FALSE),
                                    Star(SpaceChars), EndAnchor(FALSE), EndAnchor(FALSE)>>})
>>

performancePatterns == <<
    Rule("for\\s*$$[^)]*$$\\s*{[^}]*for\\s*\\(",
         {LitI("for") \o <<Star(SpaceChars), EndAnchor(FALSE), EndAnchor(FALSE), NotStar({")"}),
                            EndAnchor(FALSE), EndAnchor(FALSE), Star(SpaceChars)>> \o Lit("{")
          \o <<NotStar({"}"})>> \o LitI("for") \o <<Star(SpaceChars)>> \o Lit("(")}),
    Rule("while\\s*$$[^)]*$$\\s*{[^}]*while\\s*\\(",
         {LitI("while") \o <<Star(SpaceChars), EndAnchor(FALSE), EndAnchor(FALSE), NotStar({")"}),
                              EndAnchor(FALSE), EndAnchor(FALSE), Star(SpaceChars)>> \o Lit("{")
          \o <<NotStar({"}"})>> \o LitI("while") \o <<Star(SpaceChars)>> \o Lit("(")}),
    Rule("\\.map\\s*$$[^)]*$$\\.map\\s*\\(",
         {LitI(".map") \o <<Star(SpaceChars), EndAnchor(FALSE), EndAnchor(FALSE), NotStar({")"}),
                             EndAnchor(FALSE), EndAnchor(FALSE)>> \o LitI(".map")
          \o <<Star(SpaceChars)>> \o Lit("(")}),
    Rule("JSON\\.parse\\s*\\(\\s*JSON\\.stringify",
         {LitI("JSON.parse") \o <<Star(SpaceChars)>> \o Lit("(") \o <<Star(SpaceChars)>>
          \o LitI("JSON.stringify")}),
    Rule("new\\s+RegExp\\s*\\(",
         {LitI("new") \o <<Plus(SpaceChars)>> \o LitI("RegExp") \o <<Star(SpaceChars)>> \o Lit("(")}),
    Rule("console\\.log\\s*\\(", {LitI("console.log") \o <<Star(SpaceChars)>> \o Lit("(")}),
    Rule("debugger\\s*;", {LitI("debugger") \o <<Star(SpaceChars)>> \o Lit(";")}),
    Rule("alert\\s*\\(", {LitI("alert") \o <<Star(SpaceChars)>> \o Lit("(")})
>>

bugPatterns == <<
    Rule("==\\s*null", {Lit("==") \o <<Star(SpaceChars)>> \o LitI("null")}),
    Rule("!=\\s*null", {Lit("!=") \o <<Star(SpaceChars)>> \o LitI("null")}),
    Rule("==\\s*undefined", {Lit("==") \o <<Star(SpaceChars)>> \o LitI("undefined")}),
    Rule("!=\\s*undefined", {Lit("!=") \o <<Star(SpaceChars)>> \o LitI("undefined")}),
    Rule("\\+\\+\\w+\\[", {Lit("++") \o <<Plus(WordChars)>> \o Lit("[")}),
    Rule("\\w+\\[\\+\\+", {<<Plus(WordChars)>> \o Lit("[++")}),
    Rule("catch\\s*$$[^)]*$$\\s*{\\s*}",
         {LitI("catch") \o <<Star(SpaceChars), EndAnchor(FALSE), EndAnchor(FALSE), NotStar({")"}),
                              EndAnchor(FALSE), EndAnchor(FALSE), Star(SpaceChars)>> \o Lit("{")
          \o <<Star(SpaceChars)>> \o Lit("}")}),
    Rule("if\\s*$$[^)]*$$\\s*;\\s*$",
         {Lit("if") \o <<Star(SpaceChars), EndAnchor(TRUE), EndAnchor(TRUE), NotStar({")"}),
                          EndAnchor(TRUE), EndAnchor(TRUE), Star(SpaceChars)>> \o Lit(";")
          \o <<Star(SpaceChars), EndAnchor(TRUE)>>}),
    Rule("else\\s*;\\s*$",
         {Lit("else") \o <<Star(SpaceChars)>> \o Lit(";") \o <<Star(SpaceChars), EndAnchor(TRUE)>>})
>>

stylePatterns == <<
    Rule("function\\s+\\w+\\s*$$[^)]*$$\\s*{[\\s\\S]{500,}?}",
         {LitI("function") \o <<Plus(SpaceChars), Plus(WordChars), Star(SpaceChars), EndAnchor(FALSE),
                                 EndAnchor(FALSE), NotStar({")"}), EndAnchor(FALSE), EndAnchor(FALSE),
                                 Star(SpaceChars)>> \o Lit("{") \o <<NotAtLeast(AnyChar, 500)>> \o Lit("}")}),
    Rule("class\\s+\\w+\\s*{[\\s\\S]{1000,}?}",
         {LitI("class") \o <<Plus(SpaceChars), Plus(WordChars), Star(SpaceChars)>> \o Lit("{")
          \o <<NotAtLeast(AnyChar, 1000)>> \o Lit("}")}),
    Rule("\\/\\*[\\s\\S]*?\\*\\/", {Lit("/*") \o <<NotStar(AnyChar)>> \o Lit("*/")}),
    Rule("\\/\\/\\s*(TODO|FIXME|HACK|XXX)",
         {Lit("//") \o <<Star(SpaceChars)>> \o LitI(w) : w \in {"TODO", "FIXME", "HACK", "XXX"}}),
    Rule("var\\s+", {LitI("var") \o <<Plus(SpaceChars)>>})
>>

\* (the rules /if...$/gm and /else...$/gm carry flag m and not flag i: their
\* words are case-sensitive and $ also holds before a line break)

(***************************************************************************)
(* The side table of rule metadata, keyed by the regex's source text       *)
(* (getSecurityPatternInfo .. getStylePatternInfo; patternsInfo).          *)
(***************************************************************************)
Info(severity, description, suggestion) ==
    [severity |-> severity, description |-> description, suggestion |-> suggestion]

getSecurityPatternInfo ==
    ("eval\\s*\\(" :> Info("critical", "Use of eval() can lead to code injection vulnerabilities",
                            "Avoid eval() and use safer alternatives like JSON.parse() for data"))
    @@ ("innerHTML\\s*=" :> Info("high", "Direct innerHTML assignment can lead to XSS vulnerabilities",
                                 "Use textContent or sanitize HTML content before assignment"))
    @@ ("password\\s*=\\s*['\"]" :> Info("critical", "Hardcoded password detected in source code",
                                         "Use environment variables or secure configuration for passwords"))

getPerformancePatternInfo ==
    ("for\\s*$$[^)]*$$\\s*{[^}]*for\\s*\\(" :>
        Info("medium", "Nested loops can cause performance issues with large datasets",
             "Consider optimizing algorithm or using more efficient data structures"))
    @@ ("console\\.log\\s*\\(" :> Info("low", "Console logs should be removed from production code",
                                       "Remove console.log statements or use proper logging framework"))

getBugPatternInfo ==
    ("==\\s*null" :> Info("medium", "Loose equality with null can cause unexpected behavior",
                          "Use strict equality (===) for null checks"))
    @@ ("catch\\s*$$[^)]*$$\\s*{\\s*}" :>
        Info("high", "Empty catch blocks hide errors and make debugging difficult",
             "Add proper error handling or at least log the error"))

getStylePatternInfo ==
    ("var\\s+" :> Info("low", "var has function scope and can cause confusion",
                       "Use let or const for block-scoped variables"))
    @@ ("\\/\\/\\s*(TODO|FIXME|HACK|XXX)" :>
        Info("low", "Technical debt comment indicates incomplete work",
             "Address the TODO/FIXME or create a proper issue to track it"))

(***************************************************************************)
(* ReviewAnalysisEngine.  A FileChange is [path, patch]; patch is the      *)
(* sequence of the patch's lines, and <<>> stands for patch = null (split  *)
(* never returns an empty array).  The fields status, additions and        *)
(* deletions are not read by the engine.                                   *)
(***************************************************************************)
NullPatch == <<>>

\* variant of PatchIsFalsy: only the empty string is skipped, null is read as
\* a patch without lines
PatchIsFalsy_EmptyOnly(patch) == patch = <<"">>

\* !file.patch : null or the empty string
PatchIsFalsy(patch) == patch = NullPatch \/ patch = <<"">>

DetectedPattern(type, severity, pattern, filePath, description, suggestion) ==
    [type |-> type, severity |-> severity, pattern |-> pattern, files |-> <<filePath>>,
     description |-> description, suggestion |-> suggestion]

\* the elements of seq that satisfy Test, in order (Array.prototype.filter)
Filter(seq, Test(_)) == SelectSeq(seq, Test)

\* the concatenation of the sequences of a sequence (push(...xs) in a loop)
RECURSIVE Flatten(_)
Flatten(seqs) == IF seqs = <<>> THEN <<>> ELSE seqs[1] \o Flatten(Tail(seqs))

\* the sum of a sequence of numbers (+= in a loop), split in halves
RECURSIVE SumSeq(_)
SumSeq(ns) ==
    IF ns = <<>> THEN 0
    ELSE IF Len(ns) = 1 THEN ns[1]
    ELSE LET half == Len(ns) \div 2
         IN SumSeq(SubSeq(ns, 1, half)) + SumSeq(SubSeq(ns, half + 1, Len(ns)))

Min(a, b) == IF a < b THEN a ELSE b
Max(a, b) == IF a > b THEN a ELSE b

\* variant of checkPatterns: a record for every rule, the test of matches dropped
checkPatterns_AllRules(code, filePath, patterns, type, patternInfo) ==
    [i \in 1..Len(patterns) |->
          LET patternKey == patterns[i].source
              info == IF patternKey \in DOMAIN patternInfo
                      THEN patternInfo[patternKey]
                      ELSE Info("medium", "Detected pattern: " \o patterns[i].source,
                                "Review this pattern for potential issues")
          IN DetectedPattern(type, info.severity, patterns[i].source, filePath,
                             info.description, info.suggestion)]

checkPatterns(code, filePath, patterns, type, patternInfo) ==
    LET hit == Filter(patterns, LAMBDA r : StringMatch(r, code).found)
    IN [i \in 1..Len(hit) |->
          LET patternKey == hit[i].source
              info == IF patternKey \in DOMAIN patternInfo
                      THEN patternInfo[patternKey]
                      ELSE Info("medium", "Detected pattern: " \o hit[i].source,
                                "Review this pattern for potential issues")
          IN DetectedPattern(type, info.severity, hit[i].source, filePath,
                             info.description, info.suggestion)]

\* variant of PlusLinesJoined: the whole patch text, context and removed lines included
PlusLinesJoined_WholePatch(file) == JoinLines(file.patch)

\* the added code the file-type checks read: every line starting with "+",
\* prefix included, joined by line breaks
PlusLinesJoined(file) ==
    JoinLines(Filter(file.patch, LAMBDA line : StartsWith(line, "+")))

analyzeReactFile(file, addedCode) ==
    (IF Includes(addedCode, ".map(") /\ ~Includes(addedCode, "key=")
     THEN <<DetectedPattern("bug", "medium", "missing-react-key", file.path,
                            "Missing key prop in React list rendering",
                            "Add unique key prop to list items")>>
     ELSE <<>>)
    \o
    (IF Includes(addedCode, "useState")
        /\ Matches({<<Plus(WordChars)>> \o Lit(".") \o <<Plus(WordChars), Star(SpaceChars)>> \o Lit("=")},
                   addedCode)
     THEN <<DetectedPattern("bug", "high", "direct-state-mutation", file.path,
                            "Potential direct state mutation in React",
                            "Use state setter functions instead of direct mutation")>>
     ELSE <<>>)

analyzeJavaScriptFile(file) ==
    LET addedCode == PlusLinesJoined(file) IN
    (IF Includes(addedCode, "await") /\ ~Includes(addedCode, "async")
     THEN <<DetectedPattern("bug", "high", "await-without-async", file.path,
                            "Using await without async function declaration",
                            "Ensure functions using await are declared as async")>>
     ELSE <<>>)
    \o
    (IF Includes(addedCode, ".then(") /\ ~Includes(addedCode, ".catch(")
     THEN <<DetectedPattern("bug", "medium", "promise-without-catch", file.path,
                            "Promise chain without error handling",
                            "Add .catch() to handle promise rejections")>>
     ELSE <<>>)
    \o
    (IF Includes(file.path, ".tsx") \/ Includes(file.path, ".jsx")
     THEN analyzeReactFile(file, addedCode)
     ELSE <<>>)

analyzePythonFile(file) ==
    IF Includes(PlusLinesJoined(file), "except:")
    THEN <<DetectedPattern("bug", "medium", "bare-except", file.path,
                           "Bare except clause catches all exceptions",
                           "Specify exception types or use Exception as base")>>
    ELSE <<>>

analyzeSQLFile(file) ==
    IF Matches({LitI("SELECT") \o <<Plus(SpaceChars)>> \o Lit("*")}, PlusLinesJoined(file))
    THEN <<DetectedPattern("performance", "medium", "select-star", file.path,
                           "SELECT * can impact performance",
                           "Specify only needed columns in SELECT statements")>>
    ELSE <<>>

SecretWords == {"password", "secret", "key", "token"}

analyzeConfigFile(file) ==
    IF Matches({LitI(w) \o <<Star(SpaceChars), One({":", "="}), Star(SpaceChars), One(Quote), Plus(WordChars)>>
                  : w \in SecretWords},
               PlusLinesJoined(file))
    THEN <<DetectedPattern("security", "critical", "hardcoded-secrets", file.path,
                           "Hardcoded secrets in configuration file",
                           "Use environment variables for sensitive data")>>
    ELSE <<>>

analyzeFileSpecific(file) ==
    LET extension == ToLowerCase(LastDotSegment(file.path)) IN
    IF PatchIsFalsy(file.patch) THEN <<>>
    ELSE (IF extension \in {"ts", "tsx", "js", "jsx"} THEN analyzeJavaScriptFile(file) ELSE <<>>)
         \o (IF extension = "py" THEN analyzePythonFile(file) ELSE <<>>)
         \o (IF extension = "sql" THEN analyzeSQLFile(file) ELSE <<>>)
         \o (IF extension \in {"json", "yaml", "yml", "env"} THEN analyzeConfigFile(file) ELSE <<>>)

\* the fields of a ReviewAnalysisEngine after its constructor
initializePatterns ==
    [securityPatterns |-> securityPatterns, performancePatterns |-> performancePatterns,
     bugPatterns |-> bugPatterns, stylePatterns |-> stylePatterns]

\* the patterns one file contributes (the body of the loop of detectPatterns),
\* for the rule lists of engine
detectPatternsOfFile(engine, file) ==
    IF PatchIsFalsy(file.patch) THEN <<>>
    ELSE LET plus == Filter(file.patch, LAMBDA line : StartsWith(line, "+") /\ ~StartsWith(line, "+++"))
             addedLines == [i \in 1..Len(plus) |-> Substring1(plus[i])]
             addedCode == JoinLines(addedLines)
         IN checkPatterns(addedCode, file.path, engine.securityPatterns, "security", getSecurityPatternInfo)
            \o checkPatterns(addedCode, file.path, engine.performancePatterns, "performance", getPerformancePatternInfo)
            \o checkPatterns(addedCode, file.path, engine.bugPatterns, "bug", getBugPatternInfo)
            \o checkPatterns(addedCode, file.path, engine.stylePatterns, "style", getStylePatternInfo)
            \o analyzeFileSpecific(file)

\* the rule lists of engine after the loop body has run for file: every rule
\* has been matched once against the file's added code
EngineAfterFile(engine, file) ==
    IF PatchIsFalsy(file.patch) THEN engine
    ELSE LET plus == Filter(file.patch, LAMBDA line : StartsWith(line, "+") /\ ~StartsWith(line, "+++"))
             addedCode == JoinLines([i \in 1..Len(plus) |-> Substring1(plus[i])])
         IN [list \in DOMAIN engine |->
                [i \in 1..Len(engine[list]) |->
                    [engine[list][i] EXCEPT !.lastIndex = StringMatch(engine[list][i], addedCode).lastIndex]]]

\* [patterns, engine]: the patterns detected in files and the rule lists after it
RECURSIVE detectPatterns(_, _)
detectPatterns(engine, files) ==
    IF files = <<>> THEN [patterns |-> <<>>, engine |-> engine]
    ELSE LET rest == detectPatterns(EngineAfterFile(engine, files[1]), Tail(files))
         IN [patterns |-> detectPatternsOfFile(engine, files[1]) \o rest.patterns,
             engine |-> rest.engine]

\* line.substring(1).trim()
CleanLine(line) == Trim(Substring1(line))

DecisionTokens == {"if", "else", "while", "for", "switch", "case", "catch", "&&", "||"}

calculateComplexity(lines) ==
    1 + Len(Filter(lines, LAMBDA line :
            Matches({<<WordBoundary>> \o Lit(w) \o <<WordBoundary>> : w \in DecisionTokens},
                    CleanLine(line))))

DebtWords == {"TODO", "FIXME", "HACK", "XXX"}

calculateTechnicalDebt(lines) ==
    SumSeq([i \in 1..Len(lines) |->
        LET cleanLine == CleanLine(lines[i]) IN
          (IF Matches({<<WordBoundary>> \o LitI(w) \o <<WordBoundary>> : w \in DebtWords}, cleanLine)
           THEN 5 ELSE 0)
        + (IF Len(cleanLine) > 120 THEN 1 ELSE 0)
        + (IF Matches({<<AtLeast({"(", ")"}, 3)>>}, cleanLine) THEN 2 ELSE 0)])

calculateSecurityRisk(lines) ==
    SumSeq([i \in 1..Len(lines) |->
        LET cleanLine == CleanLine(lines[i]) IN
          (IF Matches({LitI("eval") \o <<Star(SpaceChars)>> \o Lit("("),
                       LitI("innerHTML") \o <<Star(SpaceChars)>> \o Lit("="),
                       LitI("document.write")}, cleanLine)
           THEN 10 ELSE 0)
        + (IF Matches({LitI(w) : w \in {"password", "secret", "token", "key"}}, cleanLine)
           THEN 5 ELSE 0)
        + (IF Matches({LitI("http:"), LitI("localhost")}, cleanLine) THEN 1 ELSE 0)])

\* the files calculateMetrics reads, each with its lines starting with "+"
MetricLines(changes) ==
    LET withPatch == Filter(changes.files, LAMBDA file : ~PatchIsFalsy(file.patch))
    IN [i \in 1..Len(withPatch) |->
          [path |-> withPatch[i].path,
           addedLines |-> Filter(withPatch[i].patch, LAMBDA line : StartsWith(line, "+"))]]

\* variant of calculateMetrics: the totals without Math.min(100, ...)
calculateMetrics_Unclamped(changes) ==
    LET fs == MetricLines(changes)
    IN [complexity |-> SumSeq([i \in 1..Len(fs) |-> calculateComplexity(fs[i].addedLines)]),
        testCoverage |-> SumSeq([i \in 1..Len(fs) |->
                            IF Includes(fs[i].path, "test") \/ Includes(fs[i].path, "spec")
                            THEN Len(fs[i].addedLines) ELSE 0]),
        duplicateCode |-> 0,
        technicalDebt |-> SumSeq([i \in 1..Len(fs) |-> calculateTechnicalDebt(fs[i].addedLines)]),
        securityRisk |-> SumSeq([i \in 1..Len(fs) |-> calculateSecurityRisk(fs[i].addedLines)])]

\* variant of calculateMetrics: the complexity total starts at 1 instead of 0
calculateMetrics_BaseOne(changes) ==
    LET fs == MetricLines(changes)
    IN [complexity |-> Min(100, 1 + SumSeq([i \in 1..Len(fs) |-> calculateComplexity(fs[i].addedLines)])),
        testCoverage |-> Min(100, SumSeq([i \in 1..Len(fs) |->
                            IF Includes(fs[i].path, "test") \/ Includes(fs[i].path, "spec")
                            THEN Len(fs[i].addedLines) ELSE 0])),
        duplicateCode |-> 0,
        technicalDebt |-> Min(100, SumSeq([i \in 1..Len(fs) |-> calculateTechnicalDebt(fs[i].addedLines)])),
        securityRisk |-> Min(100, SumSeq([i \in 1..Len(fs) |-> calculateSecurityRisk(fs[i].addedLines)]))]

calculateMetrics(changes) ==
    LET fs == MetricLines(changes)
        complexity == SumSeq([i \in 1..Len(fs) |-> calculateComplexity(fs[i].addedLines)])
        testCoverage == SumSeq([i \in 1..Len(fs) |->
                            IF Includes(fs[i].path, "test") \/ Includes(fs[i].path, "spec")
                            THEN Len(fs[i].addedLines) ELSE 0])
        duplicateCode == 0
        technicalDebt == SumSeq([i \in 1..Len(fs) |-> calculateTechnicalDebt(fs[i].addedLines)])
        securityRisk == SumSeq([i \in 1..Len(fs) |-> calculateSecurityRisk(fs[i].addedLines)])
    IN [complexity |-> Min(100, complexity),
        testCoverage |-> Min(100, testCoverage),
        duplicateCode |-> Min(100, duplicateCode),
        technicalDebt |-> Min(100, technicalDebt),
        securityRisk |-> Min(100, securityRisk)]

SeverityWeight(severity) ==
    CASE severity = "critical" -> 25
      [] severity = "high"     -> 15
      [] severity = "medium"   -> 8
      [] severity = "low"      -> 3
      [] OTHER                 -> 0

(***************************************************************************)
(* The numbers of calculateRiskScore are IEEE 754 binary64: 0.2 and 0.3    *)
(* are not representable, every product and every += rounds to 53          *)
(* significant bits (ties to even).  A non-negative binary64 value is kept *)
(* exactly as the sequence of its limbs, least significant first: limb i   *)
(* counts multiples of 2^(15*(i-1) - 60).                                  *)
(***************************************************************************)
LimbBase == 2^15
LimbCount == 6

\* the binary64 value of an integer below 2^30
DoubleOfInt(n) == <<0, 0, 0, 0, n % LimbBase, n \div LimbBase>>

\* the literal 0.2 : 0x1.999999999999Ap-3 = 0x333333333333340 * 2^-60
Double02 == <<13120, 26214, 19660, 6553, 0, 0>>

\* the literal 0.3 : 0x1.3333333333333p-2 = 0x4CCCCCCCCCCCCC0 * 2^-60
Double03 == <<19648, 6553, 13107, 9830, 0, 0>>

\* the literal 0.5 = 2^59 * 2^-60
Double05 == <<0, 0, 0, 2^14, 0, 0>>

\* the exact sum of two values
ExactAdd(a, b) ==
    LET carry[i \in 0..LimbCount] ==
            IF i = 0 THEN 0 ELSE (a[i] + b[i] + carry[i - 1]) \div LimbBase
    IN [i \in 1..LimbCount |-> (a[i] + b[i] + carry[i - 1]) % LimbBase]

\* the exact product of a value and an integer n in 0..100
ExactTimes(a, n) ==
    LET carry[i \in 0..LimbCount] ==
            IF i = 0 THEN 0 ELSE (a[i] * n + carry[i - 1]) \div LimbBase
    IN [i \in 1..LimbCount |-> (a[i] * n + carry[i - 1]) % LimbBase]

\* bit k of a value, bit 0 being the least significant bit of limb 1
BitOf(a, k) == (a[(k \div 15) + 1] \div 2^(k % 15)) % 2

\* round to nearest, ties to even, at 53 significant bits
RoundToDouble(a) ==
    LET ones == {k \in 0..(15 * LimbCount - 1) : BitOf(a, k) = 1} IN
    IF ones = {} THEN a
    ELSE LET top == CHOOSE k \in ones : \A j \in ones : j <= k
             cut == top - 52
         IN IF cut <= 0 THEN a
            ELSE LET half == (cut - 1) \in ones
                     sticky == \E j \in ones : j < cut - 1
                     odd == cut \in ones
                     kept == [i \in 1..LimbCount |->
                                IF 15 * i <= cut THEN 0
                                ELSE IF 15 * (i - 1) >= cut THEN a[i]
                                ELSE (a[i] \div 2^(cut - 15 * (i - 1))) * 2^(cut - 15 * (i - 1))]
                     unit == [i \in 1..LimbCount |->
                                IF i = (cut \div 15) + 1 THEN 2^(cut % 15) ELSE 0]
                 IN IF half /\ (sticky \/ odd) THEN ExactAdd(kept, unit) ELSE kept

\* x * y and x + y of binary64 operands, x * y with an integer x in 0..100
DoubleTimes(n, y) == RoundToDouble(ExactTimes(y, n))
DoublePlus(x, y) == RoundToDouble(ExactAdd(x, y))

\* Math.round: floor(x + 0.5), the addition being exact
MathRound(x) == LET r == ExactAdd(x, Double05) IN r[5] + LimbBase * r[6]

calculateRiskScore(patterns, metrics) ==
    LET weights == SumSeq([i \in 1..Len(patterns) |-> SeverityWeight(patterns[i].severity)])
        score0 == DoubleOfInt(weights)
        score1 == DoublePlus(score0, DoubleTimes(metrics.complexity, Double02))
        score2 == DoublePlus(score1, DoubleTimes(metrics.technicalDebt, Double03))
        score3 == DoublePlus(score2, DoubleTimes(metrics.securityRisk, Double05))
    IN Min(100, MathRound(score3))

CountType(patterns, type) == Len(Filter(patterns, LAMBDA p : p.type = type))

\* Number.prototype.toString of a non-negative integer (template literal ${n})
RECURSIVE NatToString(_)
NatToString(n) ==
    IF n < 10 THEN CharAt(Digits, n + 1)
    ELSE NatToString(n \div 10) \o CharAt(Digits, (n % 10) + 1)

\* variant of generateRecommendations: the rules form an else-if chain, only
\* the first one that applies contributes
generateRecommendations_FirstOnly(patterns, metrics) ==
    LET securityIssues == CountType(patterns, "security")
        performanceIssues == CountType(patterns, "performance")
        bugIssues == CountType(patterns, "bug")
    IN IF securityIssues > 0
       THEN <<"Address " \o NatToString(securityIssues) \o " security issue(s) before merging">>
       ELSE IF performanceIssues > 2
       THEN <<"Consider performance optimization for better user experience">>
       ELSE IF bugIssues > 0
       THEN <<"Fix " \o NatToString(bugIssues) \o " potential bug(s) to improve code reliability">>
       ELSE IF metrics.complexity > 15
       THEN <<"Consider breaking down complex functions for better maintainability">>
       ELSE IF metrics.technicalDebt > 20
       THEN <<"Address technical debt comments and code quality issues">>
       ELSE IF metrics.securityRisk > 30
       THEN <<"Conduct thorough security review before deployment">>
       ELSE <<>>

generateRecommendations(patterns, metrics) ==
    LET securityIssues == CountType(patterns, "security")
        performanceIssues == CountType(patterns, "performance")
        bugIssues == CountType(patterns, "bug")
    IN (IF securityIssues > 0
        THEN <<"Address " \o NatToString(securityIssues) \o " security issue(s) before merging">>
        ELSE <<>>)
       \o (IF performanceIssues > 2
           THEN <<"Consider performance optimization for better user experience">> ELSE <<>>)
       \o (IF bugIssues > 0
           THEN <<"Fix " \o NatToString(bugIssues) \o " potential bug(s) to improve code reliability">>
           ELSE <<>>)
       \o (IF metrics.complexity > 15
           THEN <<"Consider breaking down complex functions for better maintainability">> ELSE <<>>)
       \o (IF metrics.technicalDebt > 20
           THEN <<"Address technical debt comments and code quality issues">> ELSE <<>>)
       \o (IF metrics.securityRisk > 30
           THEN <<"Conduct thorough security review before deployment">> ELSE <<>>)

\* engine.analyzeChanges(changes): [result, engine], the AnalysisResult and the
\* rule lists of the engine after the call
analyzeChangesOn(engine, changes) ==
    LET detected == detectPatterns(engine, changes.files)
        patterns == detected.patterns
        metrics == calculateMetrics(changes)
    IN [result |-> [patterns |-> patterns,
                    metrics |-> metrics,
                    riskScore |-> calculateRiskScore(patterns, metrics),
                    recommendations |-> generateRecommendations(patterns, metrics)],
        engine |-> detected.engine]

\* new ReviewAnalysisEngine().analyzeChanges(changes)
analyzeChanges(changes) == analyzeChangesOn(initializePatterns, changes).result

(***************************************************************************)
(* JavaScript values of the decoded review payload.  A number is the       *)
(* fraction n/d (d > 0); an object is a function from its keys to values.  *)
(***************************************************************************)
Undefined == [t |-> "undefined"]
JNull == [t |-> "null"]
JStr(s) == [t |-> "string", s |-> s]
JFrac(n, d) == [t |-> "number", n |-> n, d |-> d]
JNum(n) == JFrac(n, 1)
JBool(b) == [t |-> "boolean", b |-> b]
JArr(elems) == [t |-> "array", a |-> elems]
JObj(fields) == [t |-> "object", o |-> fields]

\* ToBoolean: the operand of !, || and ?:
Truthy(v) ==
    CASE v.t \in {"undefined", "null"} -> FALSE
      [] v.t = "string"  -> v.s # ""
      [] v.t = "number"  -> v.n # 0
      [] v.t = "boolean" -> v.b
      [] OTHER           -> TRUE

\* a || b
OrElse(a, b) == IF Truthy(a) THEN a ELSE b

\* v.key throws a TypeError
GetThrows(v) == v.t \in {"undefined", "null"}

\* v.key for a key that is no built-in property
Get(v, key) == IF v.t = "object" /\ key \in DOMAIN v.o THEN v.o[key] ELSE Undefined

\* a === b (arrays and objects of a payload are never the same reference as
\* a string of the engine)
StrictEq(a, b) == a.t \notin {"array", "object"} /\ a = b

\* typeof v === "number"
IsNumber(v) == v.t = "number"

\* Array.isArray(v)
IsArray(v) == v.t = "array"

\* v.includes is a function: strings and arrays have the method
HasIncludes(v) == v.t \in {"string", "array"}

\* v.includes(str) for a string str, where HasIncludes(v)
IncludesJS(v, str) ==
    IF v.t = "string" THEN Includes(v.s, str)
    ELSE \E i \in 1..Len(v.a) : StrictEq(v.a[i], JStr(str))

NumLE(a, b) == a.n * b.d <= b.n * a.d

\* Math.min and Math.max of two numbers
MathMin(a, b) == IF NumLE(a, b) THEN a ELSE b
MathMax(a, b) == IF NumLE(a, b) THEN b ELSE a

\* a - k for an integer k
NumMinus(a, k) == JFrac(a.n - k * a.d, a.d)

IsInteger(a) == a.n % a.d = 0

\* the string a template literal ${v} inserts, for a string, a boolean or a
\* non-negative integer
ToStringJS(v) ==
    CASE v.t = "string"  -> v.s
      [] v.t = "number"  -> NatToString(v.n \div v.d)
      [] v.t = "boolean" -> IF v.b THEN "true" ELSE "false"

\* the own enumerable properties an object spread {...v} copies
Spread(v) ==
    CASE v.t = "object" -> v.o
      [] v.t = "string" -> [k \in {NatToString(i - 1) : i \in 1..Len(v.s)} |->
                               JStr(CharAt(v.s, (CHOOSE i \in 1..Len(v.s) : NatToString(i - 1) = k)))]
      [] v.t = "array"  -> [k \in {NatToString(i - 1) : i \in 1..Len(v.a)} |->
                               v.a[CHOOSE i \in 1..Len(v.a) : NatToString(i - 1) = k]]
      [] OTHER          -> [k \in {} |-> Undefined]

(***************************************************************************)
(* Review fusion (pr-reviewer.ts).  The review text is represented by what *)
(* response.match(/\{[\s\S]*\}/) and JSON.parse make of it:                *)
(*   kind = "text"    no "{...}" substring,                                *)
(*   kind = "invalid" a "{...}" substring that JSON.parse rejects,         *)
(*   kind = "json"    a "{...}" substring that decodes to value.           *)
(***************************************************************************)
IssueTypes == <<"security", "performance", "bug", "style", "maintainability">>
IssueSeverities == <<"low", "medium", "high", "critical">>

\* Array.prototype.includes on an array of strings
InList(list, v) == \E i \in 1..Len(list) : StrictEq(JStr(list[i]), v)

ReviewIssue(file, line, type, severity, message, suggestion, codeSnippet) ==
    [file |-> file, line |-> line, type |-> type, severity |-> severity,
     message |-> message, suggestion |-> suggestion, codeSnippet |-> codeSnippet]

\* precondition: ~GetThrows(issue)
validateIssue(issue) ==
    ReviewIssue(OrElse(Get(issue, "file"), JStr("unknown")),
                IF IsNumber(Get(issue, "line")) THEN Get(issue, "line") ELSE Undefined,
                IF InList(IssueTypes, Get(issue, "type")) THEN Get(issue, "type").s ELSE "maintainability",
                IF InList(IssueSeverities, Get(issue, "severity")) THEN Get(issue, "severity").s ELSE "medium",
                OrElse(Get(issue, "message"), JStr("Issue description not provided")),
                Get(issue, "suggestion"),
                Get(issue, "codeSnippet"))

ReviewMetrics(totalFiles, linesAnalyzed, issuesFound, criticalIssues, securityIssues, performanceIssues) ==
    JObj([totalFiles |-> totalFiles, linesAnalyzed |-> linesAnalyzed, issuesFound |-> issuesFound,
          criticalIssues |-> criticalIssues, securityIssues |-> securityIssues,
          performanceIssues |-> performanceIssues])

\* issues.filter((i) => i.key === str).length, for the raw issues of the payload
CountRaw(issues, key, str) ==
    Len(Filter(issues, LAMBDA i : StrictEq(Get(i, key), JStr(str))))

\* precondition: no element of issues is null
calculateReviewMetrics(issues, changes) ==
    ReviewMetrics(JNum(Len(changes.files)),
                  JNum(changes.stats.insertions + changes.stats.deletions),
                  JNum(Len(issues)),
                  JNum(CountRaw(issues, "severity", "critical")),
                  JNum(CountRaw(issues, "type", "security")),
                  JNum(CountRaw(issues, "type", "performance")))

FallbackSummary == "Review completed, but response parsing failed. Manual review recommended."

FallbackSuggestions ==
    <<JStr("Consider running the review again with a different AI model"),
      JStr("Manually review the changes for potential issues"),
      JStr("Check the AI response format and model compatibility")>>

\* variant of FallbackResult: linesAnalyzed counts the insertions only
FallbackResult_InsertionsOnly(changes) ==
    [summary |-> JStr(FallbackSummary),
     issues |-> <<>>,
     suggestions |-> FallbackSuggestions,
     score |-> JNum(5),
     metrics |-> ReviewMetrics(JNum(Len(changes.files)), JNum(changes.stats.insertions),
                               JNum(0), JNum(0), JNum(0), JNum(0))]

\* the value the catch block returns
FallbackResult(changes) ==
    [summary |-> JStr(FallbackSummary),
     issues |-> <<>>,
     suggestions |-> FallbackSuggestions,
     score |-> JNum(5),
     metrics |-> ReviewMetrics(JNum(Len(changes.files)),
                               JNum(changes.stats.insertions + changes.stats.deletions),
                               JNum(0), JNum(0), JNum(0), JNum(0))]

\* the "Invalid response structure" test
InvalidStructure(parsed) ==
    \/ ~Truthy(Get(parsed, "summary"))
    \/ ~IsArray(Get(parsed, "issues"))
    \/ ~IsArray(Get(parsed, "suggestions"))
    \/ ~IsNumber(Get(parsed, "score"))

\* some statement of the try block throws
ParseThrows(response) ==
    \/ response.kind = "text"
    \/ response.kind = "invalid"
    \/ /\ response.kind = "json"
       /\ \/ InvalidStructure(response.value)
          \/ \E i \in 1..Len(Get(response.value, "issues").a) :
                 GetThrows(Get(response.value, "issues").a[i])

parseReviewResponse(response, changes) ==
    IF ParseThrows(response) THEN FallbackResult(changes)
    ELSE LET parsed == response.value
             issues == Get(parsed, "issues").a
         IN [summary |-> Get(parsed, "summary"),
             issues |-> [i \in 1..Len(issues) |-> validateIssue(issues[i])],
             suggestions |-> Get(parsed, "suggestions").a,
             score |-> MathMax(JNum(1), MathMin(JNum(10), Get(parsed, "score"))),
             metrics |-> OrElse(Get(parsed, "metrics"), calculateReviewMetrics(issues, changes))]

\* the ReviewIssue a DetectedPattern is converted to
ProjectPattern(pattern) ==
    ReviewIssue(IF pattern.files # <<>> /\ pattern.files[1] # "" THEN JStr(pattern.files[1]) ELSE JStr("unknown"),
                Undefined, pattern.type, pattern.severity,
                JStr(pattern.description), JStr(pattern.suggestion), Undefined)

PrefixLength == 20

\* list.some((x) => Applies(x) && Message(x).includes(str)): "true", "false",
\* or "throw" when the scan reaches an x that applies and has no includes method
\* before one that makes the callback true
SomeIncludes(list, Applies(_), Message(_), str) ==
    LET stops == {i \in 1..Len(list) :
                     Applies(list[i]) /\ (~HasIncludes(Message(list[i])) \/ IncludesJS(Message(list[i]), str))}
    IN IF stops = {} THEN "false"
       ELSE LET first == CHOOSE i \in stops : \A j \in stops : i <= j
            IN IF HasIncludes(Message(list[first])) THEN "true" ELSE "throw"

\* variant of IsDuplicate: the messages are compared whole, with ===
IsDuplicate_WholeMessage(allIssues, preIssue) ==
    IF \E i \in 1..Len(allIssues) :
          /\ StrictEq(allIssues[i].file, preIssue.file)
          /\ allIssues[i].type = preIssue.type
          /\ StrictEq(allIssues[i].message, preIssue.message)
    THEN "true" ELSE "false"

\* isDuplicate for one preIssue against the issues collected so far
IsDuplicate(allIssues, preIssue) ==
    SomeIncludes(allIssues,
                 LAMBDA issue : StrictEq(issue.file, preIssue.file) /\ issue.type = preIssue.type,
                 LAMBDA issue : issue.message,
                 Substring0(preIssue.message.s, PrefixLength))

\* variant of MergeIssues: allIssues.unshift(preIssue), new issues go first
RECURSIVE MergeIssues_PushFront(_, _)
MergeIssues_PushFront(allIssues, preIssues) ==
    IF preIssues = <<>> THEN [threw |-> FALSE, issues |-> allIssues]
    ELSE LET dup == IsDuplicate(allIssues, preIssues[1]) IN
         IF dup = "throw" THEN [threw |-> TRUE, issues |-> allIssues]
         ELSE MergeIssues_PushFront(IF dup = "true" THEN allIssues ELSE <<preIssues[1]>> \o allIssues,
                                    Tail(preIssues))

\* variant of MergeIssues: every preIssue is pushed, no duplicate test
MergeIssues_AlwaysPush(allIssues, preIssues) ==
    [threw |-> FALSE, issues |-> allIssues \o preIssues]

\* the loop over preAnalysisIssues: [threw, issues]
RECURSIVE MergeIssues(_, _)
MergeIssues(allIssues, preIssues) ==
    IF preIssues = <<>> THEN [threw |-> FALSE, issues |-> allIssues]
    ELSE LET dup == IsDuplicate(allIssues, preIssues[1]) IN
         IF dup = "throw" THEN [threw |-> TRUE, issues |-> allIssues]
         ELSE MergeIssues(IF dup = "true" THEN allIssues ELSE Append(allIssues, preIssues[1]),
                          Tail(preIssues))

\* aiResult.suggestions.some((sug) => sug.includes(rec.substring(0, 20)))
SuggestionCovers(suggestions, rec) ==
    SomeIncludes(suggestions, LAMBDA sug : TRUE, LAMBDA sug : sug, Substring0(rec, PrefixLength))

\* variant of MergeSuggestions: every recommendation is appended, no
\* containment test
MergeSuggestions_KeepAll(suggestions, recommendations) ==
    [threw |-> FALSE,
     suggestions |-> suggestions \o [i \in 1..Len(recommendations) |-> JStr(recommendations[i])]]

\* [threw, suggestions]
MergeSuggestions(suggestions, recommendations) ==
    IF \E i \in 1..Len(recommendations) : SuggestionCovers(suggestions, recommendations[i]) = "throw"
    THEN [threw |-> TRUE, suggestions |-> suggestions]
    ELSE LET kept == Filter(recommendations, LAMBDA rec : SuggestionCovers(suggestions, rec) = "false")
         IN [threw |-> FALSE, suggestions |-> suggestions \o [i \in 1..Len(kept) |-> JStr(kept[i])]]

CountIssues(issues, Test(_)) == Len(Filter(issues, Test))

\* variant of EnhancedMetrics: the spread comes last, so the payload's fields win
EnhancedMetrics_SpreadLast(aiResult, preAnalysis, allIssues) ==
    JObj(Spread(aiResult.metrics)
         @@ [totalFiles |-> IF preAnalysis.metrics.complexity > 0
                            THEN JNum(preAnalysis.metrics.complexity)
                            ELSE OrElse(Get(aiResult.metrics, "totalFiles"), JNum(0)),
             issuesFound |-> JNum(Len(allIssues)),
             criticalIssues |-> JNum(CountIssues(allIssues, LAMBDA i : i.severity = "critical")),
             securityIssues |-> JNum(CountIssues(allIssues, LAMBDA i : i.type = "security")),
             performanceIssues |-> JNum(CountIssues(allIssues, LAMBDA i : i.type = "performance"))])

EnhancedMetrics(aiResult, preAnalysis, allIssues) ==
    JObj([totalFiles |-> IF preAnalysis.metrics.complexity > 0
                         THEN JNum(preAnalysis.metrics.complexity)
                         ELSE OrElse(Get(aiResult.metrics, "totalFiles"), JNum(0)),
          issuesFound |-> JNum(Len(allIssues)),
          criticalIssues |-> JNum(CountIssues(allIssues, LAMBDA i : i.severity = "critical")),
          securityIssues |-> JNum(CountIssues(allIssues, LAMBDA i : i.type = "security")),
          performanceIssues |-> JNum(CountIssues(allIssues, LAMBDA i : i.type = "performance"))]
         @@ Spread(aiResult.metrics))

\* variant of AdjustedScore: the subtraction without Math.max(1, ...)
AdjustedScore_NoFloor(score, riskScore) ==
    IF riskScore > 50 THEN NumMinus(score, riskScore \div 20) ELSE score

\* variant of AdjustedScore: the penalty applies from riskScore 50 on
AdjustedScore_FromFifty(score, riskScore) ==
    IF riskScore >= 50 THEN MathMax(JNum(1), NumMinus(score, riskScore \div 20)) ELSE score

AdjustedScore(score, riskScore) ==
    IF riskScore > 50 THEN MathMax(JNum(1), NumMinus(score, riskScore \div 20)) ELSE score

\* variant of SpreadArray: const allIssues = aiResult.issues, the same array
SpreadArray_Alias(items) == [own |-> FALSE, items |-> items]

\* [...items]: an array of its own (own) that holds the elements of items
SpreadArray(items) == [own |-> TRUE, items |-> items]

\* the value aiResult holds when mergeAnalysisResults ends: allIssues.push
\* reaches aiResult.issues if allIssues is that array.  (patterns.map,
\* recommendations.filter, the array literal of allSuggestions and the object
\* literal of enhancedMetrics build new values and assign to no argument.)
AiResultAfterMerge(aiResult, preAnalysis) ==
    LET preAnalysisIssues == [i \in 1..Len(preAnalysis.patterns) |-> ProjectPattern(preAnalysis.patterns[i])]
        allIssues == SpreadArray(aiResult.issues)
    IN IF allIssues.own THEN aiResult
       ELSE [aiResult EXCEPT !.issues = MergeIssues(allIssues.items, preAnalysisIssues).issues]

\* [threw, value]: value is the ReviewResult when the call returns
mergeAnalysisResults(aiResult, preAnalysis) ==
    LET preAnalysisIssues == [i \in 1..Len(preAnalysis.patterns) |-> ProjectPattern(preAnalysis.patterns[i])]
        merged == MergeIssues(SpreadArray(aiResult.issues).items, preAnalysisIssues)
        sugs == MergeSuggestions(aiResult.suggestions, preAnalysis.recommendations)
    IN IF merged.threw \/ sugs.threw THEN [threw |-> TRUE, value |-> Undefined]
       ELSE [threw |-> FALSE,
             value |-> [summary |-> JStr(ToStringJS(aiResult.summary) \o " Pre-analysis detected "
                                         \o NatToString(Len(preAnalysis.patterns))
                                         \o " patterns with risk score "
                                         \o NatToString(preAnalysis.riskScore) \o "/100."),
                        issues |-> merged.issues,
                        suggestions |-> sugs.suggestions,
                        score |-> AdjustedScore(aiResult.score, preAnalysis.riskScore),
                        metrics |-> EnhancedMetrics(aiResult, preAnalysis, merged.issues)]]

(***************************************************************************)
(* Inputs.  The change sets are the file lists of at most MaxFiles entries *)
(* of FileEntries, and one change set whose single patch has more than a   *)
(* hundred added lines; the review texts are those of Responses.           *)
(***************************************************************************)
MaxFiles == 2
MaxIssues == 2
BigPatchLines == 101

File(path, patch) == [path |-> path, patch |-> patch]

FileEntries ==
    { File("src/a.ts", <<"+++ b/src/a.ts", "@@ -1,2 +1,3 @@", " const x = 1", "-eval(old)",
                         "+if (a != null && b != undefined) {">>),
      File("config.json", <<"+password: \"abc123\"">>),
      File("docs/x.py", NullPatch),
      File("src/b.js", <<"+eval(password = \"x\"); el.innerHTML = y">>) }

BigFile ==
    File("src/big.test.ts", [i \in 1..BigPatchLines |-> "+if (x) eval(y) // TODO"])

StatsChoices == {[insertions |-> 0, deletions |-> 0], [insertions |-> 4, deletions |-> 2]}

SeqsUpTo(S, n) == UNION {[1..k -> S] : k \in 0..n}

\* a call of eval whose parenthesis is on the next added line: the rule
\* eval\s*\( matches the added text, no single line does
EvalFile == File("src/e.js", <<"+eval", "+(code)">>)

ChangeSets ==
    {[files |-> fs, stats |-> st] :
        fs \in SeqsUpTo(FileEntries, MaxFiles) \cup {<<BigFile>>, <<EvalFile, EvalFile>>},
        st \in StatsChoices}

\* issue elements of a payload
IssueElems ==
    { JObj([file |-> JStr("config.json"), line |-> JNum(3), type |-> JStr("security"),
            severity |-> JStr("critical"),
            message |-> JStr("Hardcoded secrets in configuration file for prod")]),
      JObj([file |-> JStr("src/a.ts"), type |-> JStr("bug"), severity |-> JStr("high"),
            message |-> JNum(42)]),
      JObj([type |-> JStr("weird"), severity |-> JStr("urgent"), line |-> JStr("12"),
            suggestion |-> JStr("rename it")]),
      JObj([file |-> JStr("src/b.js"), type |-> JStr("performance"), severity |-> JStr("low"),
            message |-> JStr("slow loop")]),
      JNull }

IssueLists == {JArr(l) : l \in SeqsUpTo(IssueElems, MaxIssues)}

SuggestionLists ==
    { JArr(<<>>),
      JArr(<<JStr("Add tests")>>),
      JArr(<<JStr("First: Address 1 security issue(s) before merging, then ship")>>),
      JArr(<<JStr("Add tests"), JNum(7)>>) }

Scores == {JNum(0 - 3), JNum(0), JNum(1), JNum(7), JFrac(15, 2), JNum(10), JNum(11)}

FullMetrics ==
    JObj([totalFiles |-> JNum(77), linesAnalyzed |-> JNum(999), issuesFound |-> JNum(50),
          criticalIssues |-> JNum(9), securityIssues |-> JNum(9), performanceIssues |-> JNum(9)])

MetricsChoices ==
    {Undefined, FullMetrics, JObj([totalFiles |-> JNum(77), issuesFound |-> JNum(50)]), JNum(5)}

Payload(summary, issues, suggestions, score, metrics) ==
    LET all == [summary |-> summary, issues |-> issues, suggestions |-> suggestions,
                score |-> score, metrics |-> metrics]
        present == {k \in DOMAIN all : all[k] # Undefined}
    IN JObj([k \in present |-> all[k]])

GoodSummary == JStr("Looks fine overall.")

Payloads ==
    {Payload(GoodSummary, is, JArr(<<>>), JNum(7), m) : is \in IssueLists, m \in {Undefined, FullMetrics}}
    \cup {Payload(GoodSummary, JArr(<<e>>), JArr(<<>>), JNum(7), m) : e \in IssueElems, m \in MetricsChoices}
    \cup {Payload(GoodSummary, JArr(<<>>), sg, sc, Undefined) : sg \in SuggestionLists, sc \in Scores}
    \cup {Payload(sm, JArr(<<>>), JArr(<<>>), JNum(7), Undefined) : sm \in {Undefined, JStr(""), JNum(42), JNull}}
    \cup {Payload(GoodSummary, is, JArr(<<>>), JNum(7), Undefined) : is \in {Undefined, JStr("none"), JObj([k \in {} |-> Undefined])}}
    \cup {Payload(GoodSummary, JArr(<<>>), sg, JNum(7), Undefined) : sg \in {Undefined, JStr("none")}}
    \cup {Payload(GoodSummary, JArr(<<>>), JArr(<<>>), sc, Undefined) : sc \in {Undefined, JStr("8"), JNull}}

Responses ==
    {[kind |-> "text"], [kind |-> "invalid"]} \cup {[kind |-> "json", value |-> v] : v \in Payloads}

(***************************************************************************)
(* The configuration store (config.ts): the file ~/.pr-desc/config.json    *)
(* and the functions that keep the review profiles in it.  The file is     *)
(* either absent or holds the object that JSON.parse reads back from the   *)
(* text that saveConfig wrote.  A profile is an object of strings and      *)
(* arrays of strings without undefined properties, as the profile command  *)
(* builds it; JSON.stringify followed by JSON.parse gives such an object   *)
(* back property by property.                                              *)
(***************************************************************************)
Profile(name, description, reviewType, severity) ==
    [name |-> name, description |-> description,
     reviewType |-> reviewType, severity |-> severity]

getDefaultReviewProfiles ==
    << [name |-> "security-focused",
        description |-> "Comprehensive security review with critical issues only",
        reviewType |-> "security", severity |-> "critical",
        filePatterns |-> <<"*.ts", "*.js", "*.tsx", "*.jsx", "*.py", "*.java">>],
       [name |-> "performance-check",
        description |-> "Performance optimization review",
        reviewType |-> "performance", severity |-> "high",
        filePatterns |-> <<"*.ts", "*.js", "*.tsx", "*.jsx", "*.sql">>],
       [name |-> "code-quality",
        description |-> "General code quality and maintainability review",
        reviewType |-> "comprehensive", severity |-> "all",
        filePatterns |-> <<"*.ts", "*.js", "*.tsx", "*.jsx", "*.py", "*.java",
                           "*.go", "*.rs">>],
       [name |-> "style-guide",
        description |-> "Code style and formatting consistency check",
        reviewType |-> "style", severity |-> "all",
        filePatterns |-> <<"*.ts", "*.js", "*.tsx", "*.jsx", "*.css", "*.scss">>],
       [name |-> "bug-hunter",
        description |-> "Focus on potential bugs and logic errors",
        reviewType |-> "bugs", severity |-> "high",
        filePatterns |-> <<"*.ts", "*.js", "*.tsx", "*.jsx", "*.py", "*.java">>] >>

getDefaultReviewConfig ==
    [defaultReviewType |-> "comprehensive",
     defaultSeverity |-> "all",
     maxFiles |-> 20,
     maxDiffLines |-> 500,
     enablePreAnalysis |-> TRUE,
     reviewProfiles |-> getDefaultReviewProfiles,
     autoFix |-> FALSE,
     outputFormat |-> "formatted",
     scoreThreshold |-> [pass |-> 8, warn |-> 6, fail |-> 4]]

getDefaultConfig ==
    [defaultProvider |-> "groq",
     defaultTemplate |-> "standard",
     defaultBaseBranch |-> "main",
     reviewConfig |-> getDefaultReviewConfig]

\* { ...a, ...b }
ObjectSpread(a, b) ==
    [k \in DOMAIN a \cup DOMAIN b |-> IF k \in DOMAIN b THEN b[k] ELSE a[k]]

\* an object without properties; the spread of undefined
EmptyObject == [k \in {} |-> Undefined]

\* obj?.[key]
Property(obj, key) == IF key \in DOMAIN obj THEN obj[key] ELSE Undefined

\* config.json before the first saveConfig
NoFile == [exists |-> FALSE]

\* config.json after writeFileSync(CONFIG_FILE, JSON.stringify(config, null, 2))
FileOf(config) == [exists |-> TRUE, data |-> config]

loadConfig(file) ==
    IF ~file.exists THEN getDefaultConfig
    ELSE LET config == file.data
             reviewConfig == Property(config, "reviewConfig")
         IN ObjectSpread(ObjectSpread(getDefaultConfig, config),
                         [reviewConfig |->
                            ObjectSpread(getDefaultReviewConfig,
                                         IF reviewConfig = Undefined THEN EmptyObject
                                         ELSE reviewConfig)])

\* variant of addReviewProfile: the profile is pushed without the filter
addReviewProfile_PushOnly(file, profile) ==
    LET config == loadConfig(file)
        reviewConfig == IF Property(config, "reviewConfig") = Undefined
                        THEN getDefaultReviewConfig ELSE config.reviewConfig
        reviewProfiles == IF Property(reviewConfig, "reviewProfiles") = Undefined
                          THEN <<>> ELSE reviewConfig.reviewProfiles
    IN [save |-> TRUE,
        config |-> ObjectSpread(config,
                     [reviewConfig |->
                        ObjectSpread(reviewConfig,
                          [reviewProfiles |-> Append(reviewProfiles, profile)])])]

\* the object that addReviewProfile(profile) hands to saveConfig
addReviewProfile(file, profile) ==
    LET config == loadConfig(file)
        reviewConfig == IF Property(config, "reviewConfig") = Undefined
                        THEN getDefaultReviewConfig ELSE config.reviewConfig
        reviewProfiles == IF Property(reviewConfig, "reviewProfiles") = Undefined
                          THEN <<>> ELSE reviewConfig.reviewProfiles
        kept == SelectSeq(reviewProfiles, LAMBDA p : p.name # profile.name)
    IN [save |-> TRUE,
        config |-> ObjectSpread(config,
                     [reviewConfig |->
                        ObjectSpread(reviewConfig,
                          [reviewProfiles |-> Append(kept, profile)])])]

\* the object that removeReviewProfile(profileName) hands to saveConfig, if
\* it gets that far
removeReviewProfile(file, profileName) ==
    LET config == loadConfig(file)
        reviewConfig == Property(config, "reviewConfig")
    IN IF reviewConfig = Undefined THEN [save |-> FALSE]
       ELSE IF Property(reviewConfig, "reviewProfiles") = Undefined THEN [save |-> FALSE]
       ELSE [save |-> TRUE,
             config |-> ObjectSpread(config,
                          [reviewConfig |->
                             ObjectSpread(reviewConfig,
                               [reviewProfiles |->
                                  SelectSeq(reviewConfig.reviewProfiles,
                                            LAMBDA p : p.name # profileName)])])]

getReviewProfile(file, profileName) ==
    LET config == loadConfig(file)
        reviewConfig == Property(config, "reviewConfig")
        reviewProfiles == IF reviewConfig = Undefined THEN Undefined
                          ELSE Property(reviewConfig, "reviewProfiles")
        found == IF reviewProfiles = Undefined THEN <<>>
                 ELSE SelectSeq(reviewProfiles, LAMBDA p : p.name = profileName)
    IN IF found = <<>> THEN Undefined ELSE Head(found)

listReviewProfiles(file) ==
    LET config == loadConfig(file)
        reviewConfig == Property(config, "reviewConfig")
        reviewProfiles == IF reviewConfig = Undefined THEN Undefined
                          ELSE Property(reviewConfig, "reviewProfiles")
    IN IF reviewProfiles = Undefined THEN <<>> ELSE reviewProfiles

\* the profiles handed to addReviewProfile: one that takes the name of a
\* default profile, and two of one new name
ProfileInputs ==
    { Profile("security-focused", "Secrets only", "security", "critical"),
      Profile("team", "Team rules", "comprehensive", "all"),
      Profile("team", "Team rules, strict", "comprehensive", "high") }

\* the names handed to removeReviewProfile and getReviewProfile
ProfileNames == {"security-focused", "bug-hunter", "team", "legacy"}

\* no call of the configuration store has been made
NoCall == [op |-> "none"]

(***************************************************************************)
(* generatePRReview as a process: pc is its position, the other variables  *)
(* its locals.  engine holds what a call can change of the                 *)
(* ReviewAnalysisEngine, the lastIndex of each RegExp; configFile is       *)
(* config.json and call the last call of the configuration store.          *)
(***************************************************************************)
VARIABLES pc, changes, engine, preAnalysis, response, aiResult, review, configFile, call

\* the locals of generatePRReview
reviewVars == <<pc, changes, engine, preAnalysis, response, aiResult, review>>

\* config.json and the last call of the configuration store
configVars == <<configFile, call>>

vars == <<reviewVars, configVars>>

\* what a call can change of an engine: the lastIndex of each of its RegExp
\* objects, list by list
LastIndexOf(patterns) ==
    [list \in DOMAIN patterns |->
        [i \in 1..Len(patterns[list]) |-> patterns[list][i].lastIndex]]

\* the rules of an engine whose RegExp objects have these lastIndex values
PatternsAt(lastIndexes) ==
    [list \in DOMAIN initializePatterns |->
        [i \in 1..Len(initializePatterns[list]) |->
            [initializePatterns[list][i] EXCEPT !.lastIndex = lastIndexes[list][i]]]]

\* a local that has not been assigned
Unset == [t |-> "unset"]

Init ==
    /\ pc = "start"
    /\ changes \in ChangeSets
    /\ engine = LastIndexOf(initializePatterns)
    /\ preAnalysis = Unset
    /\ response = Unset
    /\ aiResult = Unset
    /\ review = Unset
    /\ configFile = NoFile
    /\ call = NoCall

\* const preAnalysis = await analysisEngine.analyzeChanges(changes)
AnalyzeChanges ==
    /\ pc = "start"
    /\ \E run \in {analyzeChangesOn(PatternsAt(engine), changes)} :
          /\ preAnalysis' = run.result
          /\ engine' = LastIndexOf(run.engine)
    /\ pc' = "requesting"
    /\ UNCHANGED <<changes, response, aiResult, review, configVars>>

\* await generateText(...) resolves with a text
GenerateTextResolves ==
    /\ pc = "requesting"
    /\ response' \in Responses
    /\ pc' = "received"
    /\ UNCHANGED <<changes, engine, preAnalysis, aiResult, review, configVars>>

\* variant of GenerateTextRejects: the failure is caught and answered with
\* the fallback of parseReviewResponse
GenerateTextRejects_Swallowed ==
    /\ pc = "requesting"
    /\ aiResult' = FallbackResult(changes)
    /\ pc' = "parsed"
    /\ UNCHANGED <<changes, engine, preAnalysis, response, review, configVars>>

\* await generateText(...) rejects: generatePRReview rejects with the failure
GenerateTextRejects ==
    /\ pc = "requesting"
    /\ pc' = "rejected"
    /\ UNCHANGED <<changes, engine, preAnalysis, response, aiResult, review, configVars>>

\* const aiResult = parseReviewResponse(text, changes)
ParseReviewResponse ==
    /\ pc = "received"
    /\ aiResult' = parseReviewResponse(response, changes)
    /\ pc' = "parsed"
    /\ UNCHANGED <<changes, engine, preAnalysis, response, review, configVars>>

\* return mergeAnalysisResults(aiResult, preAnalysis)
MergeAnalysisResults ==
    /\ pc = "parsed"
    /\ LET merged == mergeAnalysisResults(aiResult, preAnalysis) IN
         /\ pc' = IF merged.threw THEN "threw" ELSE "done"
         /\ review' = merged.value
    /\ aiResult' = AiResultAfterMerge(aiResult, preAnalysis)
    /\ UNCHANGED <<changes, engine, preAnalysis, response, configVars>>

Next ==
    \/ AnalyzeChanges
    \/ GenerateTextResolves
    \/ GenerateTextRejects
    \/ ParseReviewResponse
    \/ MergeAnalysisResults

Spec == Init /\ [][Next]_vars

(***************************************************************************)
(* The analysis engine on its own: analyzeChanges applied to the change    *)
(* sets of EngineChangeSets.  They are the file lists of ChangeSets, each  *)
(* file of EngineFiles alone, before and after each file of FileEntries,   *)
(* and a patch of TodoLines TODO comments.  EngineFiles are a patch whose  *)
(* technical debt is 31, a secret assignment that spans two added lines, a *)
(* patch whose +++ header names a file TODO.md, a patch without added      *)
(* lines, an empty patch text, patches with three and with two findings of *)
(* type performance, a patch whose only decision tokens are && and ||, and *)
(* a patch at the thresholds of the recommendations.                       *)
(***************************************************************************)
TodoLines == 20

\* a patch at the thresholds of generateRecommendations: complexity 15,
\* technicalDebt 20 and securityRisk 30
ThresholdFile ==
    File("src/edge.js",
         [i \in 1..14 |-> IF i <= 3 THEN "+if (a) eval(b) // TODO"
                          ELSE IF i = 4 THEN "+if (a) b() // TODO"
                          ELSE "+if (a) b()"])

EngineFiles ==
    { File("docs/notes.md", <<"+TODO f(g())", "+TODO f(g())", "+TODO f(g())", "+TODO", "+TODO">>),
      File("deploy.yaml", <<"+password:", "+  \"abc123\"">>),
      File("docs/TODO.md", <<"--- a/docs/TODO.md", "+++ b/docs/TODO.md", "@@ -1 +1,2 @@",
                             " # Open points", "+- ship it">>),
      File("src/c.ts", <<"@@ -1,2 +1 @@", " if (eval(x)) { // TODO password", "-var y = eval(z)">>),
      File("README.md", <<"">>),
      File("src/perf.js", <<"+console.log(x == null); debugger; alert(y)">>),
      File("src/log.js", <<"+console.log(x); debugger;">>),
      File("src/guard.js", <<"+return ready && go()", "+const rows = found || []">>),
      ThresholdFile }

TodoFile ==
    File("src/todo.sql", [i \in 1..TodoLines |-> "+-- TODO tune this query"])

EngineChangeSets ==
    {[files |-> fs, stats |-> [insertions |-> 0, deletions |-> 0]] :
        fs \in SeqsUpTo(FileEntries, MaxFiles)
               \cup {<<BigFile>>, <<EvalFile, EvalFile>>, <<TodoFile>>}
               \cup {<<BigFile, File("src/perf.js", <<"+console.log(x == null); debugger; alert(y)">>)>>}
               \cup {<<e>> : e \in EngineFiles}
               \cup {<<e, f>> : e \in EngineFiles, f \in FileEntries}
               \cup {<<f, e>> : e \in EngineFiles, f \in FileEntries}}

EngineInit ==
    /\ pc = "start"
    /\ changes \in EngineChangeSets
    /\ engine = LastIndexOf(initializePatterns)
    /\ preAnalysis = Unset
    /\ response = Unset
    /\ aiResult = Unset
    /\ review = Unset
    /\ configFile = NoFile
    /\ call = NoCall

EngineNext == AnalyzeChanges

EngineSpec == EngineInit /\ [][EngineNext]_vars

(***************************************************************************)
(* An engine in use: analyzeChanges is called again and again, on the same *)
(* ReviewAnalysisEngine or on a new one, each time with any change set of  *)
(* EngineChangeSets.  analyzeChanges has no await in its body, so a call   *)
(* runs to its end before the next one begins.                             *)
(***************************************************************************)
\* the engine that has returned a result is called with another change set
CallAgain ==
    /\ pc = "requesting"
    /\ changes' \in EngineChangeSets
    /\ preAnalysis' = Unset
    /\ pc' = "start"
    /\ UNCHANGED <<engine, response, aiResult, review, configVars>>

\* a new ReviewAnalysisEngine() is called with another change set
CallOnNewEngine ==
    /\ pc = "requesting"
    /\ changes' \in EngineChangeSets
    /\ engine' = LastIndexOf(initializePatterns)
    /\ preAnalysis' = Unset
    /\ pc' = "start"
    /\ UNCHANGED <<response, aiResult, review, configVars>>

SessionNext ==
    \/ AnalyzeChanges
    \/ CallAgain
    \/ CallOnNewEngine

SessionSpec == EngineInit /\ [][SessionNext]_vars

(***************************************************************************)
(* The profile commands: addReviewProfile, removeReviewProfile and         *)
(* getReviewProfile called one after another in any order, starting        *)
(* without a config.json.  Each function is synchronous, so a call is one  *)
(* step.  writeFileSync either writes the whole text or fails; a failure   *)
(* leaves config.json as it was and saveConfig throws.                     *)
(***************************************************************************)
ConfigInit ==
    /\ pc = "start"
    /\ changes = [files |-> <<>>, stats |-> [insertions |-> 0, deletions |-> 0]]
    /\ engine = LastIndexOf(initializePatterns)
    /\ preAnalysis = Unset
    /\ response = Unset
    /\ aiResult = Unset
    /\ review = Unset
    /\ configFile = NoFile
    /\ call = NoCall

AddReviewProfile ==
    \E profile \in ProfileInputs, written \in BOOLEAN :
        LET request == addReviewProfile(configFile, profile) IN
          /\ configFile' = IF written THEN FileOf(request.config) ELSE configFile
          /\ call' = [op |-> "addReviewProfile", profile |-> profile, threw |-> ~written]
          /\ UNCHANGED reviewVars

RemoveReviewProfile ==
    \E profileName \in ProfileNames, written \in BOOLEAN :
        LET request == removeReviewProfile(configFile, profileName) IN
          /\ configFile' = IF request.save /\ written THEN FileOf(request.config)
                           ELSE configFile
          /\ call' = [op |-> "removeReviewProfile", profileName |-> profileName,
                      threw |-> request.save /\ ~written]
          /\ UNCHANGED reviewVars

GetReviewProfile ==
    \E profileName \in ProfileNames :
        /\ call' = [op |-> "getReviewProfile", profileName |-> profileName,
                    threw |-> FALSE,
                    result |-> getReviewProfile(configFile, profileName)]
        /\ UNCHANGED <<configFile, reviewVars>>

ConfigNext ==
    \/ AddReviewProfile
    \/ RemoveReviewProfile
    \/ GetReviewProfile

ConfigSpec == ConfigInit /\ [][ConfigNext]_vars

(***************************************************************************)
(* Properties of review fusion                                             *)
(***************************************************************************)
Parsed == pc \in {"parsed", "done", "threw"}

\* the issues of the fused result that the merge step pushed after the AI issues
Pushed == SubSeq(review.issues, Len(aiResult.issues) + 1, Len(review.issues))

\* the first 20 characters of the message a pattern is projected to
PatternPrefix(pattern) == Substring0(pattern.description, 20)

\* an AI-sourced issue of which the projection of pattern is a duplicate: same
\* file, same type, and a message that contains the pattern's prefix
DuplicatedByAi(pattern) ==
    \E i \in 1..Len(aiResult.issues) :
        LET issue == aiResult.issues[i] IN
        /\ issue.file = JStr(pattern.files[1])
        /\ issue.type = pattern.type
        /\ issue.message.t = "string"
        /\ Includes(issue.message.s, PatternPrefix(pattern))

\* C1: review fusion is total: whatever the change set and the review text,
\* parseReviewResponse followed by mergeAnalysisResults returns a ReviewResult
\* and never throws.
C1_FusionNeverThrows == pc # "threw"

\* C2: when the review text has no {...} substring, or that substring is not
\* decodable JSON, or the decoded object fails validation, the parse step
\* returns the fixed fallback: the fixed summary, no issues, the three fixed
\* suggestions, score 5, and metrics with totalFiles = number of files,
\* linesAnalyzed = insertions + deletions and the four issue counts at 0.
C2_FallbackOnParseFailure ==
    (Parsed /\ (response.kind \in {"text", "invalid"} \/ InvalidStructure(response.value)))
    => /\ aiResult.summary
            = JStr("Review completed, but response parsing failed. Manual review recommended.")
       /\ aiResult.issues = <<>>
       /\ aiResult.suggestions
            = <<JStr("Consider running the review again with a different AI model"),
                JStr("Manually review the changes for potential issues"),
                JStr("Check the AI response format and model compatibility")>>
       /\ aiResult.score = JNum(5)
       /\ aiResult.metrics
            = JObj([totalFiles |-> JNum(Len(changes.files)),
                    linesAnalyzed |-> JNum(changes.stats.insertions + changes.stats.deletions),
                    issuesFound |-> JNum(0), criticalIssues |-> JNum(0),
                    securityIssues |-> JNum(0), performanceIssues |-> JNum(0)])

\* a decoded payload that fails validation has been parsed, for a change set
\* with files and changed lines
C2_Witness ==
    /\ pc = "parsed"
    /\ response.kind = "json"
    /\ InvalidStructure(response.value)
    /\ Len(changes.files) > 0
    /\ changes.stats.deletions > 0

\* C3: the score of every fused ReviewResult lies in [1,10], for payload
\* scores below 1 and above 10, for the fallback, and for every riskScore.
C3_ScoreInRange ==
    pc = "done" => NumLE(JNum(1), review.score) /\ NumLE(review.score, JNum(10))

\* a payload score of at most 1 has been fused with a riskScore above 50
C3_Witness ==
    /\ pc = "done"
    /\ response.kind = "json"
    /\ ~ParseThrows(response)
    /\ NumLE(Get(response.value, "score"), JNum(1))
    /\ preAnalysis.riskScore > 50

\* C4: for every change set, complexity, testCoverage, duplicateCode,
\* technicalDebt and securityRisk of the CodeMetrics, and the riskScore,
\* lie in [0,100].
C4_MetricsInRange ==
    pc # "start"
    => /\ \A k \in {"complexity", "testCoverage", "duplicateCode", "technicalDebt", "securityRisk"} :
              preAnalysis.metrics[k] \in 0..100
       /\ DOMAIN preAnalysis.metrics
            = {"complexity", "testCoverage", "duplicateCode", "technicalDebt", "securityRisk"}
       /\ preAnalysis.riskScore \in 0..100

\* a change set with more than 100 added lines, each adding to every total,
\* has been analysed
C4_Witness ==
    /\ pc = "requesting"
    /\ \E i \in 1..Len(changes.files) : Len(changes.files[i].patch) > 100
    /\ preAnalysis.metrics.complexity = 100
    /\ preAnalysis.metrics.testCoverage = 100
    /\ preAnalysis.metrics.technicalDebt = 100
    /\ preAnalysis.metrics.securityRisk = 100
    /\ preAnalysis.riskScore = 100

\* C5: every issue projected from a DetectedPattern that is not a duplicate of
\* any AI-sourced issue is appended to the merged issues; in particular two
\* different patterns of the same file and type are both kept when neither
\* duplicates an AI issue.
C5_NonDuplicatesAppended ==
    pc = "done"
    => \A i \in 1..Len(preAnalysis.patterns) :
          ~DuplicatedByAi(preAnalysis.patterns[i])
          => \E j \in 1..Len(Pushed) : Pushed[j] = ProjectPattern(preAnalysis.patterns[i])

\* C6: a heuristic issue is dropped, and only the AI issue kept, whenever an
\* AI-sourced issue has the same file and type and a message that contains the
\* first 20 characters of the heuristic issue's message.
C6_DuplicatesDropped ==
    pc = "done"
    => \A i \in 1..Len(preAnalysis.patterns) :
          DuplicatedByAi(preAnalysis.patterns[i])
          => \A j \in 1..Len(Pushed) : Pushed[j] # ProjectPattern(preAnalysis.patterns[i])

\* the hardcoded-secrets finding of config.json has been fused with the AI
\* issue "Hardcoded secrets in configuration file for prod" of the same file
C6_Witness ==
    /\ pc = "done"
    /\ \E i \in 1..Len(preAnalysis.patterns) :
          /\ preAnalysis.patterns[i].pattern = "hardcoded-secrets"
          /\ preAnalysis.patterns[i].description = "Hardcoded secrets in configuration file"
          /\ DuplicatedByAi(preAnalysis.patterns[i])
    /\ \E j \in 1..Len(review.issues) :
          review.issues[j].message = JStr("Hardcoded secrets in configuration file for prod")

\* C7: fusion is idempotent on the issue count: fusing the fused result with
\* the same AnalysisResult a second time returns and inserts no further issue.
C7_FusionIdempotent ==
    pc = "done"
    => LET again == mergeAnalysisResults(review, preAnalysis)
       IN ~again.threw /\ Len(again.value.issues) = Len(review.issues)

\* a fusion that pushed a heuristic issue after at least one AI issue
C7_Witness ==
    /\ pc = "done"
    /\ Len(aiResult.issues) > 0
    /\ Len(review.issues) > Len(aiResult.issues)

\* C8: in every fused ReviewResult, whatever metrics the payload supplied,
\* issuesFound is the length of the merged issues list, criticalIssues the
\* number of merged issues of severity critical, securityIssues the number of
\* type security and performanceIssues the number of type performance.
C8_CountsRecomputed ==
    pc = "done"
    => /\ Get(review.metrics, "issuesFound") = JNum(Len(review.issues))
       /\ Get(review.metrics, "criticalIssues")
            = JNum(Cardinality({j \in 1..Len(review.issues) : review.issues[j].severity = "critical"}))
       /\ Get(review.metrics, "securityIssues")
            = JNum(Cardinality({j \in 1..Len(review.issues) : review.issues[j].type = "security"}))
       /\ Get(review.metrics, "performanceIssues")
            = JNum(Cardinality({j \in 1..Len(review.issues) : review.issues[j].type = "performance"}))

\* a payload whose metrics object carries other counts has been fused into a
\* result with issues of severity critical
C8_Witness ==
    /\ pc = "done"
    /\ Get(aiResult.metrics, "issuesFound") = JNum(50)
    /\ Get(aiResult.metrics, "criticalIssues") = JNum(9)
    /\ \E j \in 1..Len(review.issues) : review.issues[j].severity = "critical"

\* C9: in every fused ReviewResult, metrics.totalFiles is the number of files
\* of the input change set, independent of the heuristic CodeMetrics.
C9_TotalFilesIsFileCount ==
    pc = "done" => Get(review.metrics, "totalFiles") = JNum(Len(changes.files))

\* C10: in every fused ReviewResult, metrics.linesAnalyzed is insertions +
\* deletions of the input change set, whether the payload carried no metrics
\* object, one with another linesAnalyzed, or one without that field.
C10_LinesAnalyzedFromStats ==
    pc = "done"
    => Get(review.metrics, "linesAnalyzed")
         = JNum(changes.stats.insertions + changes.stats.deletions)
\* two numbers are equal
SameNumber(a, b) == a.n * b.d = b.n * a.d

\* the payload score clamped to [1,10]
ClampedScore(p) == IF p.n < p.d THEN JNum(1) ELSE IF p.n > 10 * p.d THEN JNum(10) ELSE p

\* C11: the fused score is determined by the parsed AI score s (the payload
\* score clamped to [1,10], or 5 on fallback) and the riskScore r: it is s
\* when r <= 50, also at r = 50, and max(1, s - floor(r/20)) when r > 50,
\* where floor(r/20) is between 2 and 5; it is never above s.
C11_ScoreFormula ==
    pc = "done"
    => LET r == preAnalysis.riskScore
           s == IF ParseThrows(response) THEN JNum(5)
                ELSE ClampedScore(Get(response.value, "score"))
           lowered == JFrac(s.n - (r \div 20) * s.d, s.d)
       IN /\ SameNumber(aiResult.score, s)
          /\ r <= 50 => SameNumber(review.score, s)
          /\ r > 50 => /\ (r \div 20) \in 2..5
                       /\ SameNumber(review.score, IF lowered.n < lowered.d THEN JNum(1) ELSE lowered)
          /\ NumLE(review.score, s)

\* a payload score of 7.5 has been fused with a riskScore of exactly 50
C11_Witness ==
    /\ pc = "done"
    /\ preAnalysis.riskScore = 50
    /\ response.kind = "json"
    /\ Get(response.value, "score") = JFrac(15, 2)
    /\ review.score = JFrac(15, 2)

(***************************************************************************)
(* Properties of the analysis engine                                       *)
(***************************************************************************)
Analyzed == pc # "start"

\* the sum of the severity weights of the detected patterns
WeightSum(patterns) ==
    SumSeq([i \in 1..Len(patterns) |->
              CASE patterns[i].severity = "critical" -> 25
                [] patterns[i].severity = "high" -> 15
                [] patterns[i].severity = "medium" -> 8
                [] patterns[i].severity = "low" -> 3])

\* C12: riskScore = min(100, round(W + 0.2*complexity + 0.3*technicalDebt +
\* 0.5*securityRisk)), W the sum of the severity weights of the detected
\* patterns, the metrics the clamped CodeMetrics, and the rounding to the
\* nearest integer with halves rounded up (computed here in tenths).
C12_RiskScoreRounded ==
    Analyzed
    => LET m == preAnalysis.metrics
           tenths == 10 * WeightSum(preAnalysis.patterns)
                     + 2 * m.complexity + 3 * m.technicalDebt + 5 * m.securityRisk
       IN preAnalysis.riskScore = Min(100, (tenths + 5) \div 10)

\* the normalized added-code text of a patch: its lines that begin with "+"
\* and are not the +++ header, without the "+", joined by line breaks
AddedLinesOf(patch) ==
    LET plus == SelectSeq(patch, LAMBDA line : StartsWith(line, "+") /\ ~StartsWith(line, "+++"))
    IN [i \in 1..Len(plus) |-> Substring1(plus[i])]

AddedText(patch) == JoinLines(AddedLinesOf(patch))

\* the registry: every rule with its category
Registry ==
    {[type |-> "security", rule |-> securityPatterns[i]] : i \in 1..Len(securityPatterns)}
    \cup {[type |-> "performance", rule |-> performancePatterns[i]] : i \in 1..Len(performancePatterns)}
    \cup {[type |-> "bug", rule |-> bugPatterns[i]] : i \in 1..Len(bugPatterns)}
    \cup {[type |-> "style", rule |-> stylePatterns[i]] : i \in 1..Len(stylePatterns)}

RuleSources == {e.rule.source : e \in Registry}

\* C13: for every file entry with a patch and every rule of every category
\* the generic matcher emits exactly one DetectedPattern for the pair if the
\* rule matches the file's added-code text and none otherwise, however often
\* it matches; the record has the rule's category as type and a files list
\* that holds exactly the file's path.
C13_OnePatternPerFileAndRule ==
    Analyzed
    => /\ \A e \in Registry : \A path \in {changes.files[i].path : i \in 1..Len(changes.files)} :
             Cardinality({k \in 1..Len(preAnalysis.patterns) :
                             /\ preAnalysis.patterns[k].pattern = e.rule.source
                             /\ preAnalysis.patterns[k].type = e.type
                             /\ preAnalysis.patterns[k].files = <<path>>})
             = Cardinality({i \in 1..Len(changes.files) :
                             /\ changes.files[i].path = path
                             /\ changes.files[i].patch # NullPatch
                             /\ Matches(e.rule.regex, AddedText(changes.files[i].patch))})
       /\ \A k \in 1..Len(preAnalysis.patterns) :
             /\ Len(preAnalysis.patterns[k].files) = 1
             /\ preAnalysis.patterns[k].pattern \in RuleSources
                => \E e \in Registry : /\ e.rule.source = preAnalysis.patterns[k].pattern
                                       /\ e.type = preAnalysis.patterns[k].type

\* a file whose added lines call eval more than once has been analysed, and
\* the rule eval\s*\( is recorded once for it
C13_Witness ==
    /\ Analyzed
    /\ \E i \in 1..Len(changes.files) :
          /\ Cardinality({j \in 1..Len(changes.files[i].patch) :
                            Includes(changes.files[i].patch[j], "eval(")}) > 1
          /\ Cardinality({k \in 1..Len(preAnalysis.patterns) :
                            /\ preAnalysis.patterns[k].pattern = "eval\\s*\\("
                            /\ preAnalysis.patterns[k].files = <<changes.files[i].path>>}) = 1

\* lines that are no added lines and would trigger rules and metrics if read
NoiseBefore == <<"@@ -7,3 +9,4 @@", " if (eval(x)) { // TODO password = 'x'; var a">>
NoiseAfter == <<"-el.innerHTML = await fetch('http://localhost').then(f)">>

\* the change set with the lines of every patch that do not begin with "+"
\* replaced by other ones
ContextVariant(c) ==
    [c EXCEPT !.files =
        [i \in 1..Len(c.files) |->
            IF PatchIsFalsy(c.files[i].patch) THEN c.files[i]
            ELSE [c.files[i] EXCEPT !.patch =
                    NoiseBefore
                    \o SelectSeq(c.files[i].patch, LAMBDA line : StartsWith(line, "+"))
                    \o NoiseAfter]]]

C15_EmptyChangeSet ==
    (Analyzed /\ changes.files = <<>>)
    => preAnalysis = [patterns |-> <<>>,
                      metrics |-> [complexity |-> 0, testCoverage |-> 0, duplicateCode |-> 0,
                                   technicalDebt |-> 0, securityRisk |-> 0],
                      riskScore |-> 0,
                      recommendations |-> <<>>]

\* the change set without files has been analysed
C15_Witness ==
    /\ pc = "requesting"
    /\ Len(changes.files) = 0
    /\ preAnalysis # Unset

\* a file without patch, and a file whose patch has no line beginning with "+"
AbsentPatchFile == File("src/gone.ts", NullPatch)
NoAddedLineFile == File("src/gone.ts", <<"@@ -1,2 +1 @@", " const a = 1", "-const b = 2">>)

\* the change set with file inserted after the first pos files
InsertFile(c, pos, file) ==
    [c EXCEPT !.files = SubSeq(c.files, 1, pos) \o <<file>> \o SubSeq(c.files, pos + 1, Len(c.files))]

HasSecretAssignment(text) ==
    Matches({LitI(w) \o <<Star(SpaceChars), One({":", "="}), Star(SpaceChars), One(Quote), Plus(WordChars)>>
               : w \in {"password", "secret", "key", "token"}},
            text)

IsSecretFinding(p, path) ==
    /\ p.pattern = "hardcoded-secrets"
    /\ p.type = "security"
    /\ p.severity = "critical"
    /\ p.files = <<path>>

\* C18: for a file whose lower-cased extension is json, yaml, yml or env and
\* whose added text contains a secret assignment token, the result holds
\* exactly one DetectedPattern of type security, severity critical and
\* pattern hardcoded-secrets for that file, and the finding adds exactly 25
\* to the pattern-based sum of the riskScore.
C18_ConfigSecretFound ==
    Analyzed
    => \A path \in {changes.files[i].path : i \in 1..Len(changes.files)} :
          LET entries == {i \in 1..Len(changes.files) :
                            /\ changes.files[i].path = path
                            /\ ToLowerCase(LastDotSegment(path)) \in {"json", "yaml", "yml", "env"}
                            /\ changes.files[i].patch # NullPatch
                            /\ HasSecretAssignment(AddedText(changes.files[i].patch))}
              others == SelectSeq(preAnalysis.patterns, LAMBDA p : ~IsSecretFinding(p, path))
          IN entries # {}
             => /\ Len(preAnalysis.patterns) - Len(others) = Cardinality(entries)
                /\ WeightSum(preAnalysis.patterns) - WeightSum(others) = 25 * Cardinality(entries)

\* the debt one added line carries: each increment at most once
LineDebt(line) ==
    (IF \E w \in {"TODO", "FIXME", "HACK", "XXX"} : Includes(line, w) THEN 5 ELSE 0)
    + (IF Len(line) > 120 THEN 1 ELSE 0)
    + (IF \E i \in 1..(Len(line) - 2) :
            \A j \in i..(i + 2) : SubSeq(line, j, j) \in {"(", ")"}
       THEN 2 ELSE 0)

\* C19: technicalDebt equals min(100, the sum over all added lines of all
\* files of 5 for a TODO, FIXME, HACK or XXX, 1 for more than 120 characters
\* and 2 for three or more consecutive parenthesis characters), each
\* increment at most once per line; 20 or more added TODO lines yield 100.
C19_TechnicalDebtFormula ==
    Analyzed
    => LET added == Flatten([i \in 1..Len(changes.files) |-> AddedLinesOf(changes.files[i].patch)])
           todos == Len(SelectSeq(added, LAMBDA line : Includes(line, "TODO")))
       IN /\ preAnalysis.metrics.technicalDebt
               = Min(100, SumSeq([i \in 1..Len(added) |-> LineDebt(added[i])]))
          /\ todos >= 20 => preAnalysis.metrics.technicalDebt = 100

\* other texts for the +++ line of a patch
HeaderTexts == {"+++ b/renamed", "+++ b/lib/await.ts"}

\* the change set with the text of every +++ line replaced by header
HeaderVariant(c, header) ==
    [c EXCEPT !.files =
        [i \in 1..Len(c.files) |->
            [c.files[i] EXCEPT !.patch =
                [j \in 1..Len(c.files[i].patch) |->
                    IF StartsWith(c.files[i].patch[j], "+++") THEN header
                    ELSE c.files[i].patch[j]]]]]

FileTypeFindingNames ==
    {"await-without-async", "promise-without-catch", "missing-react-key",
     "direct-state-mutation", "hardcoded-secrets"}

FileTypeFindings(patterns) ==
    SelectSeq(patterns, LAMBDA p : p.pattern \in FileTypeFindingNames)

GenericFindings(patterns) ==
    SelectSeq(patterns, LAMBDA p : p.pattern \in RuleSources)

\* C21: the +++ line of a patch never influences the analysis: two change
\* sets that are equal except for the text of a patch's +++ line yield the
\* same complexity, testCoverage, technicalDebt and securityRisk and the same
\* file-type-specific findings, as they yield the same generic findings.
C21_HeaderLineIgnored ==
    Analyzed
    => \A header \in HeaderTexts :
          \A other \in {analyzeChanges(HeaderVariant(changes, header))} :
             /\ \A k \in {"complexity", "testCoverage", "technicalDebt", "securityRisk"} :
                   other.metrics[k] = preAnalysis.metrics[k]
             /\ FileTypeFindings(other.patterns) = FileTypeFindings(preAnalysis.patterns)
             /\ GenericFindings(other.patterns) = GenericFindings(preAnalysis.patterns)

\* the change set that holds the file alone
OnlyFile(file) == [files |-> <<file>>, stats |-> [insertions |-> 0, deletions |-> 0]]

\* C22: analyzeChanges is a pure, order-independent function of its argument:
\* whatever the engine analysed before, the result equals the one a new engine
\* returns for the change set, the patterns are, file by file, those the file
\* yields when analysed alone, and no rule of the registry holds a match
\* position after the call.
C22_AnalysisIsPure ==
    /\ \A list \in DOMAIN engine : \A i \in 1..Len(engine[list]) : engine[list][i] = 0
    /\ Analyzed
       => /\ preAnalysis = analyzeChangesOn(initializePatterns, changes).result
          /\ preAnalysis.patterns
               = Flatten([i \in 1..Len(changes.files) |->
                            analyzeChangesOn(initializePatterns, OnlyFile(changes.files[i])).result.patterns])

\* the same file has been analysed twice in a row, and the rule eval\s*\( is
\* recorded for both entries
C22_Witness ==
    /\ Analyzed
    /\ Len(changes.files) = 2
    /\ changes.files[1] = changes.files[2]
    /\ Cardinality({k \in 1..Len(preAnalysis.patterns) :
                      preAnalysis.patterns[k].pattern = "eval\\s*\\("}) = 2

\* the number of detected patterns of a type
PatternCount(type) ==
    Cardinality({k \in 1..Len(preAnalysis.patterns) : preAnalysis.patterns[k].type = type})

\* <<text>> if the rule applies, nothing otherwise
Contributes(applies, text) == IF applies THEN <<text>> ELSE <<>>

\* C25: the recommendations are the strings of six independent threshold
\* rules in a fixed order, each at most once: security iff the number of
\* security patterns is > 0, performance iff that of performance patterns is
\* > 2, bug iff that of bug patterns is > 0, complexity iff complexity > 15,
\* debt iff technicalDebt > 20, security review iff securityRisk > 30; the
\* security and the bug string quote the number of patterns of their type.
C25_SixIndependentRules ==
    Analyzed
    => /\ preAnalysis.recommendations
            = Contributes(PatternCount("security") > 0,
                          "Address " \o NatToString(PatternCount("security"))
                                     \o " security issue(s) before merging")
              \o Contributes(PatternCount("performance") > 2,
                             "Consider performance optimization for better user experience")
              \o Contributes(PatternCount("bug") > 0,
                             "Fix " \o NatToString(PatternCount("bug"))
                                    \o " potential bug(s) to improve code reliability")
              \o Contributes(preAnalysis.metrics.complexity > 15,
                             "Consider breaking down complex functions for better maintainability")
              \o Contributes(preAnalysis.metrics.technicalDebt > 20,
                             "Address technical debt comments and code quality issues")
              \o Contributes(preAnalysis.metrics.securityRisk > 30,
                             "Conduct thorough security review before deployment")
       /\ Len(preAnalysis.recommendations) \in 0..6

\* a change set for which all six rules apply has been analysed
C25_Witness ==
    /\ Analyzed
    /\ Len(preAnalysis.recommendations) = 6
    /\ PatternCount("performance") > 2

\* the line contains a decision token: one of the words as a whole word, or
\* one of the operators && and ||
HasDecisionToken(line) ==
    \/ \E w \in {"if", "else", "while", "for", "switch", "case", "catch"} :
          \E i \in 1..(Len(line) - Len(w) + 1) :
              /\ SubSeq(line, i, i + Len(w) - 1) = w
              /\ ~IsWordAt(line, i - 1)
              /\ ~IsWordAt(line, i + Len(w))
    \/ Includes(line, "&&")
    \/ Includes(line, "||")

\* C26: complexity accumulates over the whole change set: before the clamp
\* to 100 it is the sum, over every file that has a patch, of 1 plus the
\* number of the file's added lines with at least one decision token (a line
\* with several tokens counts once); it is 0 exactly when no file has a patch.
C26_ComplexityAccumulates ==
    Analyzed
    => LET withPatch == SelectSeq(changes.files, LAMBDA file : file.patch \notin {NullPatch, <<"">>})
           perFile == [i \in 1..Len(withPatch) |->
                         1 + Len(SelectSeq(AddedLinesOf(withPatch[i].patch), HasDecisionToken))]
       IN /\ preAnalysis.metrics.complexity = Min(100, SumSeq(perFile))
          /\ preAnalysis.metrics.complexity = 0 <=> withPatch = <<>>

(***************************************************************************)
(* Properties of the parse step and of generatePRReview                    *)
(***************************************************************************)
TypeNames == {"security", "performance", "bug", "style", "maintainability"}
SeverityNames == {"low", "medium", "high", "critical"}

\* C17: for every payload that passes validation, each element of its issues
\* list yields one repaired issue at the same position of the parsed result,
\* with type and severity inside the enumerated sets: a type outside the
\* enumeration or missing becomes maintainability, such a severity medium, a
\* missing file "unknown", a non-numeric line absent; no payload is rejected
\* because of an issue.  Every issue of a fused result has type and severity
\* inside the enumerated sets.
C17_EveryIssueRepaired ==
    /\ (Parsed /\ response.kind = "json" /\ ~InvalidStructure(response.value))
       => LET given == Get(response.value, "issues").a IN
          /\ Len(aiResult.issues) = Len(given)
          /\ \A i \in 1..Len(given) :
                LET type == Get(given[i], "type")
                    severity == Get(given[i], "severity")
                    repaired == aiResult.issues[i]
                IN /\ repaired.type = IF type.t = "string" /\ type.s \in TypeNames
                                      THEN type.s ELSE "maintainability"
                   /\ repaired.severity = IF severity.t = "string" /\ severity.s \in SeverityNames
                                          THEN severity.s ELSE "medium"
                   /\ Get(given[i], "file") = Undefined => repaired.file = JStr("unknown")
                   /\ Get(given[i], "line").t # "number" => repaired.line = Undefined
    /\ pc = "done"
       => \A j \in 1..Len(review.issues) :
             /\ review.issues[j].type \in TypeNames
             /\ review.issues[j].severity \in SeverityNames

\* C20: when generateText rejects, generatePRReview rejects with it and no
\* ReviewResult exists, neither the parse fallback nor a heuristic-only
\* result; a parse result, the fallback included, and a fused result exist
\* only when a review text was received.
C20_LlmFailureSurfaced ==
    /\ pc = "rejected" => response = Unset /\ aiResult = Unset /\ review = Unset
    /\ (response = Unset /\ pc \notin {"start", "requesting"}) => pc = "rejected"
    /\ aiResult # Unset => response # Unset
    /\ review # Unset => response # Unset /\ aiResult # Unset

C20_Witness == pc = "rejected" /\ preAnalysis # Unset /\ response = Unset

\* the decoded payload has the required shape
RequiredShape(payload) ==
    /\ Get(payload, "summary").t = "string"
    /\ Get(payload, "issues").t = "array"
    /\ Get(payload, "suggestions").t = "array"
    /\ Get(payload, "score").t = "number"

\* the parse result is the fallback
IsFallback(result) ==
    /\ result.summary = JStr("Review completed, but response parsing failed. Manual review recommended.")
    /\ result.issues = <<>>
    /\ result.score = JNum(5)

\* C23: the parse step accepts a decoded payload if and only if its summary
\* is a string, its issues and its suggestions are lists and its score is a
\* number; every other shape yields the fallback, and a payload of the
\* required shape is never a failure, whatever the string its summary is.
C23_AcceptedIffShape ==
    (Parsed /\ response.kind = "json")
    => /\ RequiredShape(response.value)
          => ~IsFallback(aiResult) /\ aiResult.summary = Get(response.value, "summary")
       /\ ~RequiredShape(response.value) => IsFallback(aiResult)

(***************************************************************************)
(* Properties of the merge step                                            *)
(***************************************************************************)
\* the first 20 characters of rec are contained in some AI-sourced suggestion
CoveredByAi(rec) ==
    \E i \in 1..Len(aiResult.suggestions) :
        /\ aiResult.suggestions[i].t = "string"
        /\ Includes(aiResult.suggestions[i].s, SubSeq(rec, 1, Min(20, Len(rec))))

\* C24: the merged suggestions are all AI-sourced suggestions in their
\* order, followed by exactly those recommendations, in their order, whose
\* first 20 characters are not contained in any AI-sourced suggestion; the
\* recommendations are compared with the AI-sourced suggestions only.
C24_SuggestionsMerged ==
    pc = "done"
    => LET kept == SelectSeq(preAnalysis.recommendations, LAMBDA rec : ~CoveredByAi(rec))
       IN review.suggestions = aiResult.suggestions \o [i \in 1..Len(kept) |-> JStr(kept[i])]

\* a fusion that dropped one recommendation as covered by an AI-sourced
\* suggestion and kept another one
C24_Witness ==
    /\ pc = "done"
    /\ \E i \in 1..Len(preAnalysis.recommendations) : CoveredByAi(preAnalysis.recommendations[i])
    /\ \E i \in 1..Len(preAnalysis.recommendations) : ~CoveredByAi(preAnalysis.recommendations[i])
    /\ Len(review.suggestions) > Len(aiResult.suggestions)

\* C27: the score of every fused ReviewResult is one of the integers 1..10,
\* for every numeric score of the payload, 7.5 included; the riskScore and
\* every CodeMetrics field are integers as well.
C27_ScoreIsInteger ==
    /\ pc = "done"
       => \E k \in 1..10 : review.score.n = k * review.score.d
    /\ Analyzed
       => /\ preAnalysis.riskScore \in Int
          /\ \A k \in DOMAIN preAnalysis.metrics : preAnalysis.metrics[k] \in Int

\* C28: the merge step leaves its inputs unchanged: when
\* mergeAnalysisResults(aiResult, preAnalysis) ends, preAnalysis (patterns,
\* metrics, riskScore, recommendations) and aiResult (issues, suggestions,
\* score, metrics) hold the values they held before the call; the fused
\* issues and suggestions are lists of their own.
C28_MergeLeavesInputs ==
    [][pc = "parsed" => aiResult' = aiResult /\ preAnalysis' = preAnalysis]_vars

\* a fusion that appended heuristic issues and recommendations, after which
\* the parse result is still the one parseReviewResponse returned
C28_Witness ==
    /\ pc = "done"
    /\ Len(aiResult.issues) > 0
    /\ Len(review.issues) > Len(aiResult.issues)
    /\ Len(review.suggestions) > Len(aiResult.suggestions)
    /\ aiResult = parseReviewResponse(response, changes)
    /\ preAnalysis = analyzeChangesOn(initializePatterns, changes).result

\* issue is the projection of pattern
ProjectionOf(issue, pattern) ==
    /\ issue.file = JStr(pattern.files[1])
    /\ issue.type = pattern.type
    /\ issue.severity = pattern.severity
    /\ issue.message = JStr(pattern.description)
    /\ issue.suggestion = JStr(pattern.suggestion)

\* the issues are projections of some of the patterns, in pattern order
RECURSIVE ProjectedInOrder(_, _)
ProjectedInOrder(issues, patterns) ==
    IF issues = <<>> THEN TRUE
    ELSE IF patterns = <<>> THEN FALSE
    ELSE IF ProjectionOf(issues[1], patterns[1]) THEN ProjectedInOrder(Tail(issues), Tail(patterns))
    ELSE ProjectedInOrder(issues, Tail(patterns))

\* C29: the merge step never drops, reorders or alters an AI-sourced issue:
\* the merged issues start with all issues of the parsed AI result, in order
\* and unchanged; every issue after them is the projection of a
\* DetectedPattern of the AnalysisResult, the projections in pattern order; so
\* the merged issue count lies between the AI issue count and that count plus
\* the pattern count.
C29_AiIssuesKept ==
    pc = "done"
    => /\ Len(review.issues) >= Len(aiResult.issues)
       /\ SubSeq(review.issues, 1, Len(aiResult.issues)) = aiResult.issues
       /\ ProjectedInOrder(SubSeq(review.issues, Len(aiResult.issues) + 1, Len(review.issues)),
                           preAnalysis.patterns)
       /\ Len(review.issues) <= Len(aiResult.issues) + Len(preAnalysis.patterns)

\* a fusion of two AI-sourced issues with an AnalysisResult of which one
\* pattern was dropped as a duplicate and another one appended
C29_Witness ==
    /\ pc = "done"
    /\ Len(aiResult.issues) = 2
    /\ Len(review.issues) > 2
    /\ Len(review.issues) < 2 + Len(preAnalysis.patterns)

(***************************************************************************)
(* Properties of the configuration store                                   *)
(***************************************************************************)
\* the positions of the profiles named name in a list of profiles
Named(profiles, name) == {i \in DOMAIN profiles : profiles[i].name = name}

\* the profiles of a list that are not named name, in their order
NotNamed(profiles, name) == SelectSeq(profiles, LAMBDA p : p.name # name)

\* every name that a call or a default profile mentions
KnownNames ==
    ProfileNames \cup {p.name : p \in ProfileInputs}
        \cup {getDefaultReviewProfiles[i].name : i \in DOMAIN getDefaultReviewProfiles}

UniqueNames ==
    \A name \in KnownNames :
        Cardinality(Named(listReviewProfiles(configFile), name)) <= 1

\* what a call that has returned did to the stored profiles
ProfileStep ==
    LET before == listReviewProfiles(configFile)
        after == listReviewProfiles(configFile')
        OthersAsBefore(name) ==
            /\ NotNamed(after, name) = NotNamed(before, name)
            /\ \A other \in KnownNames \ {name} :
                  getReviewProfile(configFile', other) = getReviewProfile(configFile, other)
    IN /\ call'.op = "addReviewProfile" /\ ~call'.threw =>
            /\ Cardinality(Named(after, call'.profile.name)) = 1
            /\ after[Len(after)] = call'.profile
            /\ getReviewProfile(configFile', call'.profile.name) = call'.profile
            /\ OthersAsBefore(call'.profile.name)
       /\ call'.op = "removeReviewProfile" /\ ~call'.threw =>
            /\ Named(after, call'.profileName) = {}
            /\ getReviewProfile(configFile', call'.profileName) = Undefined
            /\ OthersAsBefore(call'.profileName)
       /\ call'.op = "getReviewProfile" =>
            /\ after = before
            /\ call'.result = getReviewProfile(configFile, call'.profileName)

\* C30: from the default configuration on, no two stored profiles share a
\* name; addReviewProfile(p) leaves exactly one profile named p.name, equal
\* to p and last; removeReviewProfile(n) leaves none named n; both leave the
\* profiles of other names as they were and in their order; so
\* getReviewProfile(n) answers with the profile of the latest
\* addReviewProfile of that name that no removeReviewProfile(n) followed.
C30_ProfileNamesUnique == []UniqueNames /\ [][ProfileStep]_vars

\* a profile that took the name of a default profile has replaced it and is
\* last, behind a profile that was stored twice under one name, and
\* getReviewProfile has answered with the second of the two
C30_Witness ==
    LET stored == listReviewProfiles(configFile) IN
      /\ call.op = "getReviewProfile"
      /\ call.profileName = "team"
      /\ call.result = Profile("team", "Team rules, strict", "comprehensive", "high")
      /\ Len(stored) = Len(getDefaultReviewProfiles)
      /\ stored[Len(stored)] = Profile("security-focused", "Secrets only", "security", "critical")
      /\ Named(stored, "bug-hunter") = {}

====
